---- MODULE Spec2Model ----
(***************************************************************************)
(* SEBNF: EBNF -> BNF desugaring, FIRST/FOLLOW computation and LL(1)       *)
(* conflict detection with a regex intersection oracle.                    *)
(*                                                                         *)
(* Three specifications share this module:                                 *)
(*   SpecRegex  do_regexs_intersect (src/src/regex_intersect.rs)           *)
(*   SpecLl1    extract_sets and Bnf::is_ll1 (src/src/sets.rs, bnf.rs)     *)
(*   SpecConv   sebnf_to_bnf (src/src/converter.rs)                        *)
(* Each one leaves the variables of the other two at their idle values.    *)
(***************************************************************************)
EXTENDS Integers, Sequences, FiniteSets, TLC

VARIABLES
    \* do_regexs_intersect
    a, b,          \* the two pattern arguments
    rpc,           \* position: "idle" | "start" | "bfs" | "done"
    parent,        \* HashMap<(StateID, StateID), Option<((StateID, StateID), u8)>>
    queue,         \* VecDeque<(StateID, StateID)>
    result,        \* Result<Option<String>, Error>
    \* extract_sets and Bnf::is_ll1
    bnf,           \* Bnf.rules: IndexMap<String, Vec<Vec<Item>>>, in insertion order
    first_sets,    \* HashMap<String, HashSet<SetItem>>
    follow_sets,   \* HashMap<String, HashSet<SetItem>>
    changed,       \* the fixed-point flag of extract_sets
    lpc,           \* position: "idle" | "start" | "first" | "follow" | "check" | "done"
    ridx,          \* the rule the driver loop of is_ll1 is at
    conflicts,     \* the Vec<Ll1Conflict> of is_ll1
    llres,         \* Result<Ll1Result, Ll1Error>
    \* sebnf_to_bnf
    sebnf,          \* Sebnf.rules: IndexMap<String, Vec<Vec<Item>>>, in insertion order
    ctx,            \* ConverterContext, with the history of the replacements made
    original_rules, \* Vec<(String, Vec<Vec<bnf::Item>>)>
    cidx,           \* the rule the loop over sebnf.rules is at
    cpc,            \* position: "idle" | "rules" | "done"
    final_rules,    \* the IndexMap of the returned Bnf
    \* check_item_conflict and regex_matches_empty, called on their own
    lhs_item,       \* argument item1 of check_item_conflict
    rhs_item,       \* argument item2 of check_item_conflict
    item_res,       \* Result<Option<SetItemConflict>, Ll1Error>
    pat,            \* the argument of regex_matches_empty
    me_res,         \* the bool regex_matches_empty returns
    fpc,            \* position: "idle" | "item" | "empty" | "done"
    \* first_of_sequence, called on its own
    fs_seq,         \* argument sequence: &[Item]
    fs_table,       \* argument first_sets: &HashMap<String, HashSet<SetItem>>
    fs_res,         \* the (HashSet<SetItem>, bool) returned
    fs_pc           \* position: "idle" | "call" | "done"

rxVars == <<a, b, rpc, parent, queue, result>>
llVars == <<bnf, first_sets, follow_sets, changed, lpc, ridx, conflicts, llres>>
cvVars == <<sebnf, ctx, original_rules, cidx, cpc, final_rules>>
fnVars == <<lhs_item, rhs_item, item_res, pat, me_res, fpc>>
fsVars == <<fs_seq, fs_table, fs_res, fs_pc>>
vars == <<rxVars, llVars, cvVars, fnVars, fsVars>>

\* the variables of do_regexs_intersect while another operation runs
RxIdle ==
    /\ a = <<>>
    /\ b = <<>>
    /\ rpc = "idle"
    /\ parent = <<>>
    /\ queue = <<>>
    /\ result = <<>>

\* the variables of extract_sets and is_ll1 while another operation runs
LlIdle ==
    /\ bnf = <<>>
    /\ first_sets = <<>>
    /\ follow_sets = <<>>
    /\ changed = FALSE
    /\ lpc = "idle"
    /\ ridx = 0
    /\ conflicts = <<>>
    /\ llres = <<>>

\* the variables of sebnf_to_bnf while another operation runs
CvIdle ==
    /\ sebnf = <<>>
    /\ ctx = <<>>
    /\ original_rules = <<>>
    /\ cidx = 0
    /\ cpc = "idle"
    /\ final_rules = <<>>

\* the variables of the single function calls while another operation runs
FnIdle ==
    /\ lhs_item = <<>>
    /\ rhs_item = <<>>
    /\ item_res = <<>>
    /\ pat = <<>>
    /\ me_res = FALSE
    /\ fpc = "idle"

\* the variables of the single first_of_sequence call while another operation runs
FsIdle ==
    /\ fs_seq = <<>>
    /\ fs_table = <<>>
    /\ fs_res = <<>>
    /\ fs_pc = "idle"

-----------------------------------------------------------------------------
(* Sequences helpers *)

\* F(x), with the argument x passed by value (computed once)
ByValue(x, F(_)) == CHOOSE y \in {F(val) : val \in {x}} : TRUE

RECURSIVE Concat(_)
Concat(ss) == IF ss = <<>> THEN <<>> ELSE Head(ss) \o Concat(Tail(ss))

Contains(seq, x) == \E i \in 1..Len(seq) : seq[i] = x

RECURSIVE AddAll(_, _)
\* insertion into an insertion-ordered sparse set: present members keep their place
AddAll(acc, new) ==
    IF new = <<>> THEN acc
    ELSE AddAll(IF Contains(acc, Head(new)) THEN acc ELSE Append(acc, Head(new)), Tail(new))

SeqsUpTo(S, n) == UNION {[1..k -> S] : k \in 0..n}

-----------------------------------------------------------------------------
(* Text: characters, their UTF-8 encoding, and lossy decoding.             *)
(* "a" and "+" are one-byte characters, "e" stands for a two-byte          *)
(* character (U+00E9, bytes 195 169), "R" for U+FFFD, the replacement      *)
(* character String::from_utf8_lossy emits for an invalid sequence.        *)

Utf8(c) ==
    CASE c = "a" -> <<97>>
      [] c = "+" -> <<43>>
      [] c = "e" -> <<195, 169>>
      [] OTHER   -> <<239, 191, 189>>

RECURSIVE Enc(_)
\* the bytes of a string
Enc(s) == IF s = <<>> THEN <<>> ELSE Utf8(Head(s)) \o Enc(Tail(s))

RECURSIVE from_utf8_lossy(_)
from_utf8_lossy(bs) ==
    IF bs = <<>> THEN <<>>
    ELSE IF bs[1] = 97 THEN <<"a">> \o from_utf8_lossy(Tail(bs))
    ELSE IF bs[1] = 43 THEN <<"+">> \o from_utf8_lossy(Tail(bs))
    ELSE IF bs[1] = 195 /\ Len(bs) >= 2 /\ bs[2] = 169
         THEN <<"e">> \o from_utf8_lossy(Tail(Tail(bs)))
    ELSE IF Len(bs) >= 3 /\ bs[1] = 239 /\ bs[2] = 191 /\ bs[3] = 189
         THEN <<"R">> \o from_utf8_lossy(Tail(Tail(Tail(bs))))
    ELSE <<"R">> \o from_utf8_lossy(Tail(bs))

\* `for byte in 0u8..=255u8`, in ascending order: the bytes that occur in the
\* encodings above; every other byte value leads every automaton to its dead state
ByteSeq == <<43, 97, 169, 195>>

-----------------------------------------------------------------------------
(* Patterns and DFA::new.                                                  *)
(* A pattern is an alternation w1|w2|...|wk in priority order, each        *)
(* alternative a concatenation of characters, any of which may carry a     *)
(* greedy `+`; or it is a text that does not compile (such as "[invalid"). *)

Elem(c, plus) == [c |-> c, plus |-> plus]

\* the alternative that is the literal s
Lit(s) == [i \in 1..Len(s) |-> Elem(s[i], FALSE)]
\* the literal s with `+` on its last character
Plus(s) == [i \in 1..Len(s) |-> Elem(s[i], i = Len(s))]

AltPool == {Lit(<<>>), Lit(<<"a">>), Lit(<<"a", "a">>), Lit(<<"e">>), Plus(<<"a">>)}

MaxAlts == 3

Injective(f) == \A i, j \in DOMAIN f : f[i] = f[j] => i = j

Invalid == [ok |-> FALSE, alts |-> <<>>]
Pat(alts) == [ok |-> TRUE, alts |-> alts]

Patterns ==
    {Pat(p) : p \in {q \in SeqsUpTo(AltPool, MaxAlts) : Len(q) >= 1 /\ Injective(q)}}
    \cup {Invalid}

\* regex_automata's DFA::new: Err(BuildError) for a pattern that does not compile
Compiles(p) == p.ok

(* The automaton DFA::new builds (default configuration: MatchKind::       *)
(* LeftmostFirst, matches delayed by one unit).  A DFA state is the        *)
(* priority-ordered set of NFA states plus the match flag; NFA states are  *)
(* <<i, j, k>>, alternative i at its character j with k bytes of it        *)
(* consumed, and the one Match state.                                      *)

NfaMatch == <<0, 0, 0>>

\* epsilon closure on entering character j of alternative i
Enter(p, i, j) == IF j > Len(p.alts[i]) THEN <<NfaMatch>> ELSE << <<i, j, 0>> >>

\* epsilon closure after byte k+1 of character j of alternative i was consumed:
\* a greedy `+` prefers another round of the character over going on
After(p, i, j, k) ==
    IF k + 1 < Len(Utf8(p.alts[i][j].c)) THEN << <<i, j, k + 1>> >>
    ELSE IF p.alts[i][j].plus THEN << <<i, j, 0>> >> \o Enter(p, i, j + 1)
    ELSE Enter(p, i, j + 1)

DeadState == [m |-> FALSE, n |-> <<>>]

RECURSIVE Determinize(_, _, _, _, _, _)
\* determinize::next: the NFA states of `n` in priority order; a Match state
\* flags the NEW state and, leftmost-first, drops every state of lower priority
Determinize(p, n, idx, eoi, byte, acc) ==
    IF idx > Len(n) THEN [m |-> FALSE, n |-> acc]
    ELSE IF n[idx] = NfaMatch THEN [m |-> TRUE, n |-> acc]
    ELSE LET i == n[idx][1]
             j == n[idx][2]
             k == n[idx][3]
         IN  IF ~eoi /\ Utf8(p.alts[i][j].c)[k + 1] = byte
             THEN Determinize(p, n, idx + 1, eoi, byte, AddAll(acc, After(p, i, j, k)))
             ELSE Determinize(p, n, idx + 1, eoi, byte, acc)

RECURSIVE StartClosure(_, _)
StartClosure(p, i) ==
    IF i > Len(p.alts) THEN <<>> ELSE AddAll(Enter(p, i, 1), StartClosure(p, i + 1))

start_state_forward(p) == [m |-> FALSE, n |-> StartClosure(p, 1)]
next_state(p, s, byte) == Determinize(p, s.n, 1, FALSE, byte, <<>>)
next_eoi_state(p, s)   == Determinize(p, s.n, 1, TRUE, 0, <<>>)
is_match_state(p, s)   == s.m
is_dead_state(p, s)    == s = DeadState

\* a pattern that does not compile is said to match the empty string
regex_matches_empty_InvalidTrue(p) ==
    IF ~Compiles(p) THEN TRUE
    ELSE is_match_state(p, next_eoi_state(p, start_state_forward(p)))

\* `let Ok(dfa) = DFA::new(pattern) else { return false; }`, then the end of
\* input transition of the anchored start state
regex_matches_empty(p) ==
    IF ~Compiles(p) THEN FALSE
    ELSE is_match_state(p, next_eoi_state(p, start_state_forward(p)))

-----------------------------------------------------------------------------
(* do_regexs_intersect: breadth-first search over the product automaton.   *)

Res(tag, w) == [tag |-> tag, w |-> w]
Pending == Res("Pending", <<>>)

\* mutant: b is compiled before a
CompileBoth_BFirst(pa, pb) ==
    IF ~Compiles(pb) THEN "InvalidRegexB"
    ELSE IF ~Compiles(pa) THEN "InvalidRegexA"
    ELSE "Ok"

\* lines 58-59: `DFA::new(a).map_err(InvalidRegexA)?` then the same for b
CompileBoth(pa, pb) ==
    IF ~Compiles(pa) THEN "InvalidRegexA"
    ELSE IF ~Compiles(pb) THEN "InvalidRegexB"
    ELSE "Ok"

StartPair(pa, pb) == <<start_state_forward(pa), start_state_forward(pb)>>

\* lines 66-70: the parent map holds the start pair with no parent, the queue holds it
BfsInit(pa, pb) ==
    [parent |-> (StartPair(pa, pb) :> <<>>),
     queue  |-> <<StartPair(pa, pb)>>,
     result |-> Pending]

\* mutant: only the first automaton is asked whether it accepts
JointMatch_OnlyA(pa, pb, cur) == is_match_state(pa, next_eoi_state(pa, cur[1]))

\* lines 73-76: both automata accept at end of input
JointMatch(pa, pb, cur) ==
    /\ is_match_state(pa, next_eoi_state(pa, cur[1]))
    /\ is_match_state(pb, next_eoi_state(pb, cur[2]))

RECURSIVE PathTo(_, _)
\* lines 77-83: the bytes on the parent chain, first byte first
PathTo(par, cur) ==
    IF par[cur] = <<>> THEN <<>>
    ELSE Append(PathTo(par, par[cur][1]), par[cur][2])

\* mutant: a successor pair is also skipped when a component is a match state
SkipPair_Match(pa, pb, na, nb) ==
    is_dead_state(pa, na) \/ is_dead_state(pb, nb) \/ na.m \/ nb.m

\* lines 91-93: a successor pair with a dead component is skipped
SkipPair(pa, pb, na, nb) == is_dead_state(pa, na) \/ is_dead_state(pb, nb)

RECURSIVE ExpandBytes_Descending(_, _, _, _, _)
\* the byte values are tried from the largest down
ExpandBytes_Descending(pa, pb, cur, st, idx) ==
    IF idx > Len(ByteSeq) THEN st
    ELSE LET byte   == ByteSeq[Len(ByteSeq) + 1 - idx]
             next_a == next_state(pa, cur[1], byte)
             next_b == next_state(pb, cur[2], byte)
             nxt    == <<next_a, next_b>>
         IN  IF SkipPair(pa, pb, next_a, next_b)
             THEN ExpandBytes_Descending(pa, pb, cur, st, idx + 1)
             ELSE IF nxt \notin DOMAIN st.parent
             THEN ExpandBytes_Descending(pa, pb, cur,
                      [st EXCEPT !.parent = @ @@ (nxt :> <<cur, byte>>),
                                 !.queue  = Append(@, nxt)],
                      idx + 1)
             ELSE ExpandBytes_Descending(pa, pb, cur, st, idx + 1)

RECURSIVE ExpandBytes(_, _, _, _, _)
\* lines 87-99: the loop over the byte values, in ascending order
ExpandBytes(pa, pb, cur, st, idx) ==
    IF idx > Len(ByteSeq) THEN st
    ELSE LET byte   == ByteSeq[idx]
             next_a == next_state(pa, cur[1], byte)
             next_b == next_state(pb, cur[2], byte)
             nxt    == <<next_a, next_b>>
         IN  IF SkipPair(pa, pb, next_a, next_b)
             THEN ExpandBytes(pa, pb, cur, st, idx + 1)
             ELSE IF nxt \notin DOMAIN st.parent
             THEN ExpandBytes(pa, pb, cur,
                      [st EXCEPT !.parent = @ @@ (nxt :> <<cur, byte>>),
                                 !.queue  = Append(@, nxt)],
                      idx + 1)
             ELSE ExpandBytes(pa, pb, cur, st, idx + 1)

\* lines 72-100: one iteration of `while let Some(..) = queue.pop_front()`
BfsPop(pa, pb, st) ==
    LET cur    == Head(st.queue)
        popped == [st EXCEPT !.queue = Tail(@)]
    IN  IF JointMatch(pa, pb, cur)
        THEN [popped EXCEPT !.result = Res("Some", from_utf8_lossy(PathTo(st.parent, cur)))]
        ELSE ExpandBytes(pa, pb, cur, popped, 1)

RECURSIVE BfsRun(_, _, _)
BfsRun(pa, pb, st) ==
    IF st.result # Pending THEN st.result
    ELSE IF st.queue = <<>> THEN Res("None", <<>>)    \* line 102
    ELSE BfsRun(pa, pb, BfsPop(pa, pb, st))

\* the function as a whole, for its callers
do_regexs_intersect(pa, pb) ==
    IF CompileBoth(pa, pb) # "Ok" THEN Res(CompileBoth(pa, pb), <<>>)
    ELSE BfsRun(pa, pb, BfsInit(pa, pb))

-----------------------------------------------------------------------------
(* SpecRegex: one call of do_regexs_intersect, one queue pop per step.     *)

EmptyMap == [x \in {} |-> <<>>]

RxInit ==
    /\ a \in Patterns
    /\ b \in Patterns
    /\ rpc = "start"
    /\ parent = EmptyMap
    /\ queue = <<>>
    /\ result = Pending
    /\ LlIdle
    /\ CvIdle
    /\ FnIdle
    /\ FsIdle

RxCompileErr ==
    /\ rpc = "start"
    /\ CompileBoth(a, b) # "Ok"
    /\ result' = Res(CompileBoth(a, b), <<>>)
    /\ rpc' = "done"
    /\ UNCHANGED <<a, b, parent, queue, llVars, cvVars, fnVars, fsVars>>

RxCompileOk ==
    /\ rpc = "start"
    /\ CompileBoth(a, b) = "Ok"
    /\ parent' = BfsInit(a, b).parent
    /\ queue' = BfsInit(a, b).queue
    /\ rpc' = "bfs"
    /\ UNCHANGED <<a, b, result, llVars, cvVars, fnVars, fsVars>>

RxPop ==
    /\ rpc = "bfs"
    /\ queue # <<>>
    /\ LET st == BfsPop(a, b, [parent |-> parent, queue |-> queue, result |-> result])
       IN  /\ parent' = st.parent
           /\ queue' = st.queue
           /\ result' = st.result
           /\ rpc' = IF st.result # Pending THEN "done" ELSE "bfs"
    /\ UNCHANGED <<a, b, llVars, cvVars, fnVars, fsVars>>

RxDrain ==
    /\ rpc = "bfs"
    /\ queue = <<>>
    /\ result' = Res("None", <<>>)
    /\ rpc' = "done"
    /\ UNCHANGED <<a, b, parent, queue, llVars, cvVars, fnVars, fsVars>>

RxNext == RxCompileErr \/ RxCompileOk \/ RxPop \/ RxDrain

SpecRegex == RxInit /\ [][RxNext]_vars

-----------------------------------------------------------------------------
(* Reference semantics for the claims about do_regexs_intersect.           *)

MaxInputLen == 3

ByteStrings == SeqsUpTo({ByteSeq[i] : i \in 1..Len(ByteSeq)}, MaxInputLen)
CharStrings == SeqsUpTo({"a", "e", "+"}, MaxInputLen)

RECURSIVE RunDfa(_, _, _)
RunDfa(p, s, bs) ==
    IF bs = <<>> THEN s ELSE RunDfa(p, next_state(p, s, Head(bs)), Tail(bs))

\* the automaton of p accepts the whole of bs: anchored at the start, a match at end of input
Accepts(p, bs) ==
    is_match_state(p, next_eoi_state(p, RunDfa(p, start_state_forward(p), bs)))

RECURSIVE MatchesAlt(_, _)
\* the concatenation `alt` matches exactly w
MatchesAlt(alt, w) ==
    IF alt = <<>> THEN w = <<>>
    ELSE /\ w # <<>>
         /\ Head(w) = Head(alt).c
         /\ \/ MatchesAlt(Tail(alt), Tail(w))
            \/ Head(alt).plus /\ MatchesAlt(alt, Tail(w))

\* the pattern fully matches w: ^(?:p)$ matches w
Matches(p, w) == \E i \in 1..Len(p.alts) : MatchesAlt(p.alts[i], w)

ByteLen(w) == Len(Enc(w))

BothCompile == Compiles(a) /\ Compiles(b)
RxDone == rpc = "done"

\* what the loop still has to do: every pop takes one pair off the queue and
\* every pair is put on the queue once, when it enters the parent map
Measure(par, q) == Len(q) - 2 * Cardinality(DOMAIN par)

C3_WitnessMatchesBoth ==
    (RxDone /\ result.tag = "Some") => Matches(a, result.w) /\ Matches(b, result.w)

C3_Witness ==
    /\ RxDone
    /\ result = Res("Some", <<"e">>)
    /\ Len(a.alts) = 3
    /\ a # b

\* C4: when a witness w is returned, no string of fewer bytes is fully matched
\* by both patterns, and w is empty when both patterns match the empty string.
C4_ShortestWitness ==
    (RxDone /\ result.tag = "Some") =>
        /\ \A v \in CharStrings :
              ByteLen(v) < ByteLen(result.w) => ~(Matches(a, v) /\ Matches(b, v))
        /\ (Matches(a, <<>>) /\ Matches(b, <<>>)) => result.w = <<>>

\* C5: swapping the arguments never changes whether an intersection is reported.
C5_SwapSymmetric ==
    (RxDone /\ BothCompile) =>
        (result.tag = "Some" <=> do_regexs_intersect(b, a).tag = "Some")

C5_Witness ==
    /\ RxDone
    /\ a = Pat(<<Lit(<<"a", "a">>)>>)
    /\ b = Pat(<<Lit(<<>>), Lit(<<"a", "a">>)>>)
    /\ result.tag = "None"

\* C6: a pattern a that does not compile gives Err(InvalidRegexA) whatever b
\* is, a compiling a with a b that does not compile gives Err(InvalidRegexB),
\* neither case searches or yields a witness, and Ok needs both to compile.
C6_CompileErrors ==
    /\ (RxDone /\ ~Compiles(a)) => result = Res("InvalidRegexA", <<>>)
    /\ (RxDone /\ Compiles(a) /\ ~Compiles(b)) => result = Res("InvalidRegexB", <<>>)
    /\ ~BothCompile => (rpc # "bfs" /\ parent = EmptyMap /\ queue = <<>>)
    /\ result.tag \in {"Some", "None"} => BothCompile

C6_Witness ==
    /\ RxDone
    /\ ~Compiles(a)
    /\ ~Compiles(b)
    /\ result.tag = "InvalidRegexA"

\* x comes before y, or is y, in the order of unsigned byte values (equal lengths)
LexLeq(x, y) ==
    \/ x = y
    \/ \E i \in 1..Len(x) : /\ x[i] < y[i]
                            /\ \A j \in 1..(i - 1) : x[j] = y[j]

-----------------------------------------------------------------------------
(* SpecEmpty: one call of regex_matches_empty.                             *)

MeInit ==
    /\ pat \in Patterns
    /\ me_res = FALSE
    /\ fpc = "empty"
    /\ lhs_item = <<>>
    /\ rhs_item = <<>>
    /\ item_res = <<>>
    /\ RxIdle
    /\ LlIdle
    /\ CvIdle
    /\ FsIdle

MeCall ==
    /\ fpc = "empty"
    /\ me_res' = regex_matches_empty(pat)
    /\ fpc' = "done"
    /\ UNCHANGED <<lhs_item, rhs_item, item_res, pat, rxVars, llVars, cvVars, fsVars>>

MeNext == MeCall

SpecEmpty == MeInit /\ [][MeNext]_vars

FnDone == fpc = "done"

\* C18: regex_matches_empty(p) returns true if and only if p compiles and
\* fully matches the empty string; for a pattern that does not compile the
\* call still returns, and returns false.
C18_MatchesEmpty ==
    FnDone => /\ me_res \in BOOLEAN
              /\ me_res <=> (Compiles(pat) /\ Matches(pat, <<>>))

C18_Witness ==
    /\ FnDone
    /\ ~Compiles(pat)
    /\ me_res = FALSE

-----------------------------------------------------------------------------
(* Grammar items and set items (bnf.rs, sets.rs).  Names, literal texts    *)
(* and regex texts are character sequences; a literal keeps its surface    *)
(* quotes and a regex its surface slashes, as the lexer delivers them.     *)

Q == "\""

NonTerminal(s) == [k |-> "NonTerminal", v |-> s]
Terminal(s) == [k |-> "Terminal", v |-> s]
Regex(s) == [k |-> "Regex", v |-> s]
Epsilon == [k |-> "Epsilon", v |-> <<>>]
EndOfInput == [k |-> "EndOfInput", v |-> <<>>]

\* s.strip_prefix(c).unwrap_or(s).strip_suffix(c).unwrap_or(s): the second
\* unwrap_or falls back to the ORIGINAL s
StripAffixes(s, c) ==
    LET t == IF s # <<>> /\ Head(s) = c THEN Tail(s) ELSE s
    IN  IF t # <<>> /\ t[Len(t)] = c THEN SubSeq(t, 1, Len(t) - 1) ELSE s

strip_regex_delimiters(s) == StripAffixes(s, "/")
strip_terminal_quotes(s) == StripAffixes(s, Q)

\* regex_syntax::is_meta_character
MetaChars ==
    {"\\", ".", "+", "*", "?", "(", ")", "|", "[", "]", "{", "}", "^", "$", "#", "&", "-", "~"}

RECURSIVE escape(_)
\* regex_syntax::escape: a backslash before every metacharacter
escape(s) ==
    IF s = <<>> THEN <<>>
    ELSE (IF Head(s) \in MetaChars THEN <<"\\", Head(s)>> ELSE <<Head(s)>>) \o escape(Tail(s))

RECURSIVE ParseFrom(_, _, _, _)
\* The parse of a pattern text by DFA::new, for texts made of characters,
\* escaped metacharacters, `|` and `+`: `+` needs something to repeat, an
\* escape needs a metacharacter after it, and a `[` that nothing closes is an
\* unclosed character class.
ParseFrom(t, i, alts, cur) ==
    IF i > Len(t) THEN Pat(Append(alts, cur))
    ELSE CASE t[i] = "[" -> Invalid
           [] t[i] = "|" -> ParseFrom(t, i + 1, Append(alts, cur), <<>>)
           [] t[i] = "+" ->
                IF cur = <<>> THEN Invalid
                ELSE ParseFrom(t, i + 1, alts, [cur EXCEPT ![Len(cur)].plus = TRUE])
           [] t[i] = "\\" ->
                IF i = Len(t) \/ t[i + 1] \notin MetaChars THEN Invalid
                ELSE ParseFrom(t, i + 2, alts, Append(cur, Elem(t[i + 1], FALSE)))
           [] OTHER -> ParseFrom(t, i + 1, alts, Append(cur, Elem(t[i], FALSE)))

\* DFA::new(text)
DfaNew(t) == ParseFrom(t, 1, <<>>, <<>>)

-----------------------------------------------------------------------------
(* sets.rs: first_of_sequence and the two fixed points of extract_sets.    *)

\* every sequence has an empty FIRST set and is nullable
first_of_sequence_Empty(sequence, fs) == [firsts |-> {}, nullable |-> TRUE]

\* the scan never goes past the first item
first_of_sequence_HeadOnly(sequence, fs) ==
    IF sequence = <<>> THEN [firsts |-> {}, nullable |-> TRUE]
    ELSE IF Head(sequence).k # "NonTerminal"
    THEN [firsts |-> {Head(sequence)}, nullable |-> FALSE]
    ELSE [firsts |-> (IF Head(sequence).v \in DOMAIN fs THEN fs[Head(sequence).v] ELSE {})
                        \ {Epsilon},
          nullable |-> /\ Len(sequence) = 1
                       /\ Head(sequence).v \in DOMAIN fs
                       /\ Epsilon \in fs[Head(sequence).v]]

RECURSIVE first_of_sequence_KeepsEpsilon(_, _)
\* the Epsilon of a nonterminal's entry is not filtered out
first_of_sequence_KeepsEpsilon(sequence, fs) ==
    IF sequence = <<>> THEN [firsts |-> {}, nullable |-> TRUE]
    ELSE LET item == Head(sequence)
         IN  IF item.k # "NonTerminal" THEN [firsts |-> {item}, nullable |-> FALSE]
             ELSE LET nt_firsts == IF item.v \in DOMAIN fs THEN fs[item.v] ELSE {}
                      has_epsilon == Epsilon \in nt_firsts
                      rest == first_of_sequence_KeepsEpsilon(Tail(sequence), fs)
                  IN  IF has_epsilon
                      THEN [firsts |-> nt_firsts \cup rest.firsts, nullable |-> rest.nullable]
                      ELSE [firsts |-> nt_firsts, nullable |-> FALSE]

RECURSIVE first_of_sequence(_, _)
\* (FIRST(sequence) without Epsilon, sequence_is_nullable)
first_of_sequence(sequence, fs) ==
    IF sequence = <<>> THEN [firsts |-> {}, nullable |-> TRUE]
    ELSE LET item == Head(sequence)
         IN  IF item.k # "NonTerminal" THEN [firsts |-> {item}, nullable |-> FALSE]
             ELSE LET nt_firsts == IF item.v \in DOMAIN fs THEN fs[item.v] ELSE {}
                      has_epsilon == Epsilon \in nt_firsts
                      rest == first_of_sequence(Tail(sequence), fs)
                  IN  IF has_epsilon
                      THEN [firsts |-> (nt_firsts \ {Epsilon}) \cup rest.firsts,
                            nullable |-> rest.nullable]
                      ELSE [firsts |-> nt_firsts \ {Epsilon}, nullable |-> FALSE]

Rule(name, prods) == [name |-> name, prods |-> prods]

Keys(g) == {g[r].name : r \in 1..Len(g)}

\* `for (lhs, productions) in &bnf.rules { for production in productions`
Productions(g) ==
    Concat([r \in 1..Len(g) |->
              [p \in 1..Len(g[r].prods) |-> [lhs |-> g[r].name, production |-> g[r].prods[p]]]])

\* ... `for i in 0..production.len()`
Sites(g) ==
    ByValue(Productions(g), LAMBDA ps :
        Concat([x \in 1..Len(ps) |->
                  [i \in 1..Len(ps[x].production) |->
                      [lhs |-> ps[x].lhs, production |-> ps[x].production, i |-> i]]]))

EmptySets(g) == [n \in Keys(g) |-> {}]

RECURSIVE FirstPass_LastChange(_, _, _)
\* `changed = ..` in place of `changed |= ..`: only the last insertion counts
FirstPass_LastChange(lps, fs, ch) ==
    IF lps = <<>> THEN [sets |-> fs, changed |-> ch]
    ELSE LET lhs == Head(lps).lhs
             r == first_of_sequence(Head(lps).production, fs)
             add == r.firsts \cup (IF r.nullable THEN {Epsilon} ELSE {})
         IN  FirstPass_LastChange(Tail(lps), [fs EXCEPT ![lhs] = @ \cup add],
                                  ~(add \subseteq fs[lhs]))

RECURSIVE FirstPass_AlwaysChanged(_, _, _)
\* every pass reports a change
FirstPass_AlwaysChanged(lps, fs, ch) ==
    IF lps = <<>> THEN [sets |-> fs, changed |-> TRUE]
    ELSE LET lhs == Head(lps).lhs
             r == first_of_sequence(Head(lps).production, fs)
             add == r.firsts \cup (IF r.nullable THEN {Epsilon} ELSE {})
         IN  FirstPass_AlwaysChanged(Tail(lps), [fs EXCEPT ![lhs] = @ \cup add], ch)

RECURSIVE FirstPass(_, _, _)
\* one round of the FIRST loop, updating the table in place
FirstPass(lps, fs, ch) ==
    IF lps = <<>> THEN [sets |-> fs, changed |-> ch]
    ELSE LET lhs == Head(lps).lhs
             r == first_of_sequence(Head(lps).production, fs)
             add == r.firsts \cup (IF r.nullable THEN {Epsilon} ELSE {})
         IN  ByValue(<<Tail(lps), [fs EXCEPT ![lhs] = @ \cup add],
                       ch \/ ~(add \subseteq fs[lhs])>>,
                     LAMBDA val : FirstPass(val[1], val[2], val[3]))

\* FOLLOW of the start symbol is not seeded
SeedFollow_None(g, fo) == fo

\* `$` into FOLLOW of the first rule, if there is one
SeedFollow(g, fo) ==
    IF g = <<>> THEN fo ELSE [fo EXCEPT ![g[1].name] = @ \cup {EndOfInput}]

RECURSIVE FollowPass_NoInherit(_, _, _, _)
\* FOLLOW of the left-hand side is never passed on
FollowPass_NoInherit(sites, fs, fo, ch) ==
    IF sites = <<>> THEN [sets |-> fo, changed |-> ch]
    ELSE LET s == Head(sites)
             cur == s.production[s.i]
         IN  IF cur.k # "NonTerminal" \/ cur.v \notin DOMAIN fo
             THEN FollowPass_NoInherit(Tail(sites), fs, fo, ch)
             ELSE LET beta == SubSeq(s.production, s.i + 1, Len(s.production))
                      r == first_of_sequence(beta, fs)
                      fo1 == [fo EXCEPT ![cur.v] = @ \cup r.firsts]
                  IN  FollowPass_NoInherit(Tail(sites), fs, fo1,
                                           ch \/ fo1[cur.v] # fo[cur.v])

RECURSIVE FollowPass(_, _, _, _)
\* one round of the FOLLOW loop, updating the table in place
FollowPass(sites, fs, fo, ch) ==
    IF sites = <<>> THEN [sets |-> fo, changed |-> ch]
    ELSE LET s == Head(sites)
             cur == s.production[s.i]
         IN  IF cur.k # "NonTerminal" \/ cur.v \notin DOMAIN fo
             THEN ByValue(Tail(sites), LAMBDA val : FollowPass(val, fs, fo, ch))
             ELSE LET beta == SubSeq(s.production, s.i + 1, Len(s.production))
                      r == first_of_sequence(beta, fs)
                      fo1 == [fo EXCEPT ![cur.v] = @ \cup r.firsts]
                      lhs_follows == IF s.lhs \in DOMAIN fo1 THEN fo1[s.lhs] ELSE {}
                      fo2 == IF r.nullable
                             THEN [fo1 EXCEPT ![cur.v] = @ \cup lhs_follows]
                             ELSE fo1
                  IN  ByValue(<<Tail(sites), fo2, ch \/ fo2[cur.v] # fo[cur.v]>>,
                              LAMBDA val : FollowPass(val[1], fs, val[2], val[3]))

RECURSIVE FirstLoop(_, _), FirstLoopNext(_, _), FollowLoop(_, _, _), FollowLoopNext(_, _, _)
\* `while changed` of the FIRST loop, visiting the productions in the order lps
FirstLoop(lps, fs) == FirstLoopNext(lps, FirstPass(lps, fs, FALSE))
FirstLoopNext(lps, r) == IF r.changed THEN FirstLoop(lps, r.sets) ELSE r.sets

\* `while changed` of the FOLLOW loop, visiting the item positions in the order sites
FollowLoop(sites, fs, fo) == FollowLoopNext(sites, fs, FollowPass(sites, fs, fo, FALSE))
FollowLoopNext(sites, fs, r) == IF r.changed THEN FollowLoop(sites, fs, r.sets) ELSE r.sets

\* the FOLLOW table of extract_sets for the FIRST table fs, `$` seeded as in g
FollowOf(g, sites, fs) == FollowLoop(sites, fs, SeedFollow(g, EmptySets(g)))

\* `Sets { first: first_sets, follow: follow_sets }`
SetsOf(g, visit, fs) == [first |-> fs, follow |-> FollowOf(g, Sites(visit), fs)]

\* extract_sets(g), its loops visiting the rules and alternatives in the order
\* they have in `visit`
extract_sets(g, visit) == SetsOf(g, visit, FirstLoop(Productions(visit), EmptySets(g)))

-----------------------------------------------------------------------------
(* sets.rs: check_item_conflict and find_set_conflicts.                    *)

NoWitness == [some |-> FALSE, w |-> <<>>]
SomeWitness(w) == [some |-> TRUE, w |-> w]

SetItemConflict(item1, item2, witness) ==
    [item1 |-> item1, item2 |-> item2, witness |-> witness]

\* the three outcomes of check_item_conflict: Ok(Some(conflict)), Ok(None),
\* Err(Ll1Error::InvalidRegex { pattern })
OkSome(c) == [tag |-> "Some", c |-> c, pattern |-> <<>>]
OkNone == [tag |-> "None", c |-> <<>>, pattern |-> <<>>]
InvalidRegex(pattern) == [tag |-> "Err", c |-> <<>>, pattern |-> pattern]

\* `match do_regexs_intersect(..) { Ok(Some(witness)) => .., Ok(None) => .., Err(e) => .. }`
OracleResult(item1, item2, pattern, r) ==
    CASE r.tag = "Some" -> OkSome(SetItemConflict(item1, item2, SomeWitness(r.w)))
      [] r.tag = "None" -> OkNone
      [] OTHER -> InvalidRegex(pattern)

\* the regex/regex and regex/literal arms: the oracle on two pattern texts
OracleArm(item1, item2, pa, pb, pattern) ==
    OracleResult(item1, item2, pattern, do_regexs_intersect(DfaNew(pa), DfaNew(pb)))

check_item_conflict(item1, item2) ==
    CASE item1.k = "Terminal" /\ item2.k = "Terminal" ->
            IF strip_terminal_quotes(item1.v) = strip_terminal_quotes(item2.v)
            THEN OkSome(SetItemConflict(item1, item2,
                                        SomeWitness(strip_terminal_quotes(item1.v))))
            ELSE OkNone
      [] item1.k = "Regex" /\ item2.k = "Regex" ->
            OracleArm(item1, item2,
                      strip_regex_delimiters(item1.v), strip_regex_delimiters(item2.v),
                      item1.v \o <<" ", "o", "r", " ">> \o item2.v)
      [] {item1.k, item2.k} = {"Regex", "Terminal"} ->
            \* (Regex(r), Terminal(t)) | (Terminal(t), Regex(r))
            OracleArm(item1, item2,
                      strip_regex_delimiters(IF item1.k = "Regex" THEN item1.v ELSE item2.v),
                      escape(strip_terminal_quotes(IF item1.k = "Regex" THEN item2.v
                                                   ELSE item1.v)),
                      IF item1.k = "Regex" THEN item1.v ELSE item2.v)
      [] item1.k = "Epsilon" /\ item2.k = "Epsilon" ->
            OkSome(SetItemConflict(item1, item2, NoWitness))
      [] item1.k = "EndOfInput" /\ item2.k = "EndOfInput" ->
            OkSome(SetItemConflict(item1, item2, NoWitness))
      [] OTHER -> OkNone

\* the outcome of every pair of the two nested loops of find_set_conflicts
PairOutcomes(set1, set2) == [p \in set1 \X set2 |-> check_item_conflict(p[1], p[2])]

\* Ok(conflicts): the Vec is kept as the set of its elements (the iteration
\* order of a HashSet is arbitrary)
Collected(out) ==
    [ok |-> TRUE,
     conflicts |-> {out[p].c : p \in {q \in DOMAIN out : out[q].tag = "Some"}},
     patterns |-> {}]

\* an error in some pair is not propagated
Propagate_Swallow(out) == Collected(out)

\* `?` returns at the first erroring pair the iteration meets: the call errs
\* iff some pair errs, with the pattern of any of them
Propagate(out) ==
    IF \E p \in DOMAIN out : out[p].tag = "Err"
    THEN [ok |-> FALSE, conflicts |-> {},
          patterns |-> {out[p].pattern : p \in {q \in DOMAIN out : out[q].tag = "Err"}}]
    ELSE Collected(out)

find_set_conflicts(set1, set2) == Propagate(PairOutcomes(set1, set2))

-----------------------------------------------------------------------------
(* bnf.rs: the body of the driver loop of Bnf::is_ll1 for one rule.        *)

Ll1Conflict(nt, kind, p1, p2, cs) ==
    [non_terminal |-> nt, kind |-> kind, production1 |-> p1, production2 |-> p2,
     conflicts |-> cs]

\* all index pairs of 1..n in the order of two nested ascending loops
IndexPairs(n) == [x \in 1..(n * n) |-> <<((x - 1) \div n) + 1, ((x - 1) % n) + 1>>]

\* the FIRST/FOLLOW check is made for every i, nullable or not
Calls_AnyProduction(rule, fs, fo) ==
    LET n == Len(rule.prods)
        prod_firsts == [p \in 1..n |-> first_of_sequence(rule.prods[p], fs)]
        follow_set == IF rule.name \in DOMAIN fo THEN fo[rule.name] ELSE {}
        ff == SelectSeq(IndexPairs(n), LAMBDA p : p[1] < p[2])
        fw == SelectSeq(IndexPairs(n), LAMBDA p : p[1] # p[2])
    IN  [x \in 1..Len(ff) |->
            [kind |-> "FirstFirst", i |-> ff[x][1], j |-> ff[x][2],
             set1 |-> prod_firsts[ff[x][1]].firsts, set2 |-> prod_firsts[ff[x][2]].firsts]]
        \o
        [x \in 1..Len(fw) |->
            [kind |-> "FirstFollow", i |-> fw[x][1], j |-> fw[x][2],
             set1 |-> prod_firsts[fw[x][2]].firsts, set2 |-> follow_set]]

\* the FIRST/FOLLOW check compares FOLLOW with itself
Calls_FollowFollow(rule, fs, fo) ==
    LET n == Len(rule.prods)
        prod_firsts == [p \in 1..n |-> first_of_sequence(rule.prods[p], fs)]
        follow_set == IF rule.name \in DOMAIN fo THEN fo[rule.name] ELSE {}
        ff == SelectSeq(IndexPairs(n), LAMBDA p : p[1] < p[2])
        fw == SelectSeq(IndexPairs(n), LAMBDA p : prod_firsts[p[1]].nullable /\ p[1] # p[2])
    IN  [x \in 1..Len(ff) |->
            [kind |-> "FirstFirst", i |-> ff[x][1], j |-> ff[x][2],
             set1 |-> prod_firsts[ff[x][1]].firsts, set2 |-> prod_firsts[ff[x][2]].firsts]]
        \o
        [x \in 1..Len(fw) |->
            [kind |-> "FirstFollow", i |-> fw[x][1], j |-> fw[x][2],
             set1 |-> follow_set, set2 |-> follow_set]]

\* the find_set_conflicts calls the loop makes for one rule, in program order:
\* FIRST/FIRST for i < j, then FIRST/FOLLOW for nullable i and every j # i
Calls(rule, fs, fo) ==
    LET n == Len(rule.prods)
        prod_firsts == [p \in 1..n |-> first_of_sequence(rule.prods[p], fs)]
        follow_set == IF rule.name \in DOMAIN fo THEN fo[rule.name] ELSE {}
        ff == SelectSeq(IndexPairs(n), LAMBDA p : p[1] < p[2])
        fw == SelectSeq(IndexPairs(n), LAMBDA p : prod_firsts[p[1]].nullable /\ p[1] # p[2])
    IN  [x \in 1..Len(ff) |->
            [kind |-> "FirstFirst", i |-> ff[x][1], j |-> ff[x][2],
             set1 |-> prod_firsts[ff[x][1]].firsts, set2 |-> prod_firsts[ff[x][2]].firsts]]
        \o
        [x \in 1..Len(fw) |->
            [kind |-> "FirstFollow", i |-> fw[x][1], j |-> fw[x][2],
             set1 |-> prod_firsts[fw[x][2]].firsts, set2 |-> follow_set]]

RECURSIVE RunCalls(_, _, _), AfterCall(_, _, _, _)
\* the calls in order
RunCalls(rule, calls, acc) ==
    IF calls = <<>> THEN [ok |-> TRUE, conflicts |-> acc, patterns |-> {}]
    ELSE AfterCall(rule, calls, acc, find_set_conflicts(Head(calls).set1, Head(calls).set2))

\* a call pushes a record whatever it found
AfterCall_PushEmpty(rule, calls, acc, r) ==
    IF ~r.ok THEN [ok |-> FALSE, conflicts |-> acc, patterns |-> r.patterns]
    ELSE RunCalls(rule, Tail(calls),
                  Append(acc, Ll1Conflict(rule.name, Head(calls).kind,
                                          rule.prods[Head(calls).i],
                                          rule.prods[Head(calls).j],
                                          r.conflicts)))

\* the first erroring call ends the analysis; a call with a non-empty result
\* pushes one Ll1Conflict
AfterCall(rule, calls, acc, r) ==
    IF ~r.ok THEN [ok |-> FALSE, conflicts |-> acc, patterns |-> r.patterns]
    ELSE IF r.conflicts # {}
    THEN RunCalls(rule, Tail(calls),
                  Append(acc, Ll1Conflict(rule.name, Head(calls).kind,
                                          rule.prods[Head(calls).i],
                                          rule.prods[Head(calls).j],
                                          r.conflicts)))
    ELSE RunCalls(rule, Tail(calls), acc)

CheckRule(rule, fs, fo, acc) == RunCalls(rule, Calls(rule, fs, fo), acc)

LlPending == [tag |-> "Pending", conflicts |-> <<>>, pattern |-> <<>>]
\* Ok(Ll1Result { conflicts })
LlOk(cs) == [tag |-> "Ok", conflicts |-> cs, pattern |-> <<>>]
\* Err(Ll1Error::InvalidRegex { pattern, .. })
LlErr(pattern) == [tag |-> "Err", conflicts |-> <<>>, pattern |-> pattern]

\* Ll1Result::is_ll1
is_ll1(res) == res.conflicts = <<>>

-----------------------------------------------------------------------------
(* The grammars analysed: a first rule S with up to MaxProds productions   *)
(* and, optionally, a second rule A.                                       *)

MaxProds == 2

S == <<"S">>
A == <<"A">>

ItemPool ==
    {NonTerminal(A), Terminal(<<Q, "a", Q>>),
     Regex(<<"/", "a", "+", "/">>), Regex(<<"/", "[", "/">>)}

\* the productions of S: empty, one item, or A before or after one item
ProdPool ==
    {<<>>}
    \cup {<<x>> : x \in ItemPool}
    \cup {<<NonTerminal(A), x>> : x \in ItemPool}
    \cup {<<x, NonTerminal(A)>> : x \in ItemPool}

\* the bodies of A: not nullable, nullable, only nullable, referring back to
\* S, with a regex that does not compile, referring to itself (the helper of
\* an empty repetition)
BodiesA ==
    {<< <<Terminal(<<Q, "+", Q>>)>> >>,
     << <<Terminal(<<Q, "+", Q>>)>>, <<>> >>,
     << <<>> >>,
     << <<NonTerminal(S)>>, <<Regex(<<"/", "[", "/">>)>> >>,
     << <<NonTerminal(S)>>, <<Terminal(<<Q, "+", Q>>)>> >>,
     << <<Regex(<<"/", "[", "/">>)>> >>,
     << <<NonTerminal(A)>>, <<>> >>}

BodiesS == {ps \in SeqsUpTo(ProdPool, MaxProds) : Len(ps) >= 1}

Grammars ==
    {<<>>}
    \cup {<<Rule(S, ps)>> : ps \in BodiesS}
    \cup {<<Rule(S, ps), Rule(A, qs)>> : ps \in BodiesS, qs \in BodiesA}

-----------------------------------------------------------------------------
(* Bnf::is_ll1 as a state machine: extract_sets round by round, then the   *)
(* driver loop rule by rule.                                               *)

LlInit ==
    /\ bnf \in Grammars
    /\ first_sets = <<>>
    /\ follow_sets = <<>>
    /\ changed = FALSE
    /\ lpc = "start"
    /\ ridx = 0
    /\ conflicts = <<>>
    /\ llres = LlPending
    /\ RxIdle
    /\ CvIdle
    /\ FnIdle
    /\ FsIdle

\* extract_sets, lines 340-349: both tables get an empty set per rule
ExtractStart ==
    /\ lpc = "start"
    /\ first_sets' = EmptySets(bnf)
    /\ follow_sets' = EmptySets(bnf)
    /\ changed' = TRUE
    /\ lpc' = "first"
    /\ UNCHANGED <<bnf, ridx, conflicts, llres, rxVars, cvVars, fnVars, fsVars>>

\* one round of `while changed` of the FIRST loop
FirstRound ==
    /\ lpc = "first"
    /\ changed
    /\ LET r == FirstPass(Productions(bnf), first_sets, FALSE)
       IN  /\ first_sets' = r.sets
           /\ changed' = r.changed
    /\ UNCHANGED <<bnf, follow_sets, lpc, ridx, conflicts, llres, rxVars, cvVars, fnVars, fsVars>>

\* the FIRST loop has ended: seed FOLLOW of the start symbol, `changed = true`
FollowStart ==
    /\ lpc = "first"
    /\ ~changed
    /\ follow_sets' = SeedFollow(bnf, follow_sets)
    /\ changed' = TRUE
    /\ lpc' = "follow"
    /\ UNCHANGED <<bnf, first_sets, ridx, conflicts, llres, rxVars, cvVars, fnVars, fsVars>>

\* one round of `while changed` of the FOLLOW loop
FollowRound ==
    /\ lpc = "follow"
    /\ changed
    /\ LET r == FollowPass(Sites(bnf), first_sets, follow_sets, FALSE)
       IN  /\ follow_sets' = r.sets
           /\ changed' = r.changed
    /\ UNCHANGED <<bnf, first_sets, lpc, ridx, conflicts, llres, rxVars, cvVars, fnVars, fsVars>>

\* extract_sets returns; is_ll1 starts its loop over the rules
DriverStart ==
    /\ lpc = "follow"
    /\ ~changed
    /\ lpc' = "check"
    /\ ridx' = 1
    /\ conflicts' = <<>>
    /\ UNCHANGED <<bnf, first_sets, follow_sets, changed, llres, rxVars, cvVars, fnVars, fsVars>>

\* no rule is skipped
Skips_Never(productions) == FALSE

\* `productions.len() <= 1`
Skips(productions) == Len(productions) <= 1

\* `if productions.len() <= 1 { continue; }`
SkipRule ==
    /\ lpc = "check"
    /\ ridx <= Len(bnf)
    /\ Skips(bnf[ridx].prods)
    /\ ridx' = ridx + 1
    /\ UNCHANGED <<bnf, first_sets, follow_sets, changed, lpc, conflicts, llres, rxVars, cvVars, fnVars, fsVars>>

\* the loop body for a rule with several productions, no call erring
CheckRuleOk ==
    /\ lpc = "check"
    /\ ridx <= Len(bnf)
    /\ ~Skips(bnf[ridx].prods)
    /\ \E r \in {CheckRule(bnf[ridx], first_sets, follow_sets, conflicts)} :
           /\ r.ok
           /\ conflicts' = r.conflicts
    /\ ridx' = ridx + 1
    /\ UNCHANGED <<bnf, first_sets, follow_sets, changed, lpc, llres, rxVars, cvVars, fnVars, fsVars>>

\* the loop body when a call errs: `?` returns the error from is_ll1
CheckRuleErr ==
    /\ lpc = "check"
    /\ ridx <= Len(bnf)
    /\ ~Skips(bnf[ridx].prods)
    /\ \E r \in {CheckRule(bnf[ridx], first_sets, follow_sets, conflicts)} :
           /\ ~r.ok
           /\ conflicts' = r.conflicts
           /\ \E pattern \in r.patterns : llres' = LlErr(pattern)
    /\ lpc' = "done"
    /\ UNCHANGED <<bnf, first_sets, follow_sets, changed, ridx, rxVars, cvVars, fnVars, fsVars>>

\* `Ok(Ll1Result { conflicts })`
Finish ==
    /\ lpc = "check"
    /\ ridx > Len(bnf)
    /\ llres' = LlOk(conflicts)
    /\ lpc' = "done"
    /\ UNCHANGED <<bnf, first_sets, follow_sets, changed, ridx, conflicts, rxVars, cvVars, fnVars, fsVars>>

LlNext ==
    \/ ExtractStart
    \/ FirstRound
    \/ FollowStart
    \/ FollowRound
    \/ DriverStart
    \/ SkipRule
    \/ CheckRuleOk
    \/ CheckRuleErr
    \/ Finish

SpecLl1 == LlInit /\ [][LlNext]_vars

\* a step of extract_sets
ExtractStep == ExtractStart \/ FirstRound \/ FollowStart \/ FollowRound \/ DriverStart

\* the call of extract_sets runs on: a step it can take is taken
SpecLl1Live == LlInit /\ [][LlNext]_vars /\ WF_vars(ExtractStep)

-----------------------------------------------------------------------------
(* Reference semantics for the claims about Bnf::is_ll1.                   *)

LlDone == lpc = "done"

\* the text between the surface delimiters of a literal or a regex
Inner(x) == SubSeq(x.v, 2, Len(x.v) - 1)

RegexFails(x) == x.k = "Regex" /\ ~Compiles(DfaNew(Inner(x)))

AllRegexesCompile ==
    \A r \in 1..Len(bnf) : \A p \in 1..Len(bnf[r].prods) :
        \A i \in 1..Len(bnf[r].prods[p]) : ~RegexFails(bnf[r].prods[p][i])

\* the set item x denotes the token w
Denotes(x, w) ==
    CASE x.k = "Terminal" -> w = Inner(x)
      [] x.k = "Regex" -> Compiles(DfaNew(Inner(x))) /\ Matches(DfaNew(Inner(x)), w)
      [] OTHER -> FALSE

\* some token is denoted by both items; the end marker is a token of its own
Overlap(x, y) ==
    \/ x = EndOfInput /\ y = EndOfInput
    \/ \E w \in CharStrings : Denotes(x, w) /\ Denotes(y, w)

\* FIRST(alpha) \ {eps} and nullability over the computed FIRST table
NullableSym(it) ==
    it.k = "NonTerminal" /\ it.v \in DOMAIN first_sets /\ Epsilon \in first_sets[it.v]
NullableSeq(alpha) == \A k \in 1..Len(alpha) : NullableSym(alpha[k])
FirstOfSym(it) ==
    IF it.k # "NonTerminal" THEN {it}
    ELSE IF it.v \in DOMAIN first_sets THEN first_sets[it.v] \ {Epsilon}
    ELSE {}
FirstOfSeq(alpha) ==
    UNION {FirstOfSym(alpha[k]) :
             k \in {n \in 1..Len(alpha) : NullableSeq(SubSeq(alpha, 1, n - 1))}}

Disjoint(X, Y) == \A x \in X, y \in Y : ~Overlap(x, y)

\* the three conditions of the claim for alternatives i # j of rule r
Cond1(r, i, j) == Disjoint(FirstOfSeq(bnf[r].prods[i]), FirstOfSeq(bnf[r].prods[j]))
Cond2(r, i, j) == ~(NullableSeq(bnf[r].prods[i]) /\ NullableSeq(bnf[r].prods[j]))
Cond3(r, i, j) ==
    NullableSeq(bnf[r].prods[i])
        => Disjoint(FirstOfSeq(bnf[r].prods[j]), follow_sets[bnf[r].name])

StandardLl1 ==
    \A r \in 1..Len(bnf) : \A i, j \in 1..Len(bnf[r].prods) :
        i # j => Cond1(r, i, j) /\ Cond2(r, i, j) /\ Cond3(r, i, j)

\* C1: for a grammar whose regex terminals all compile, is_ll1 returns an
\* empty conflict list if and only if every two distinct alternatives of
\* every nonterminal have (1) FIRST sets denoting no common token, (2) at
\* most one nullable alternative, (3) for a nullable alternative, no token
\* common to the other's FIRST and FOLLOW of the nonterminal.
C1_EmptyIffStandardLl1 ==
    (LlDone /\ AllRegexesCompile)
        => /\ llres.tag = "Ok"
           /\ is_ll1(llres) <=> StandardLl1

\* the pairs of set items the driver hands to the conflict predicate
PairsOfAlternatives(r, i, j) ==
    {<<x, y>> : x \in FirstOfSeq(bnf[r].prods[i]), y \in FirstOfSeq(bnf[r].prods[j])}
    \cup
    (IF NullableSeq(bnf[r].prods[i])
     THEN {<<x, y>> : x \in FirstOfSeq(bnf[r].prods[j]), y \in follow_sets[bnf[r].name]}
     ELSE {})

PairsOfRule(r) ==
    UNION {PairsOfAlternatives(r, p[1], p[2]) :
             p \in {q \in (1..Len(bnf[r].prods)) \X (1..Len(bnf[r].prods)) : q[1] # q[2]}}

ComparedPairs == UNION {PairsOfRule(r) : r \in 1..Len(bnf)}

\* a regex with a regex, or a regex with a literal, one regex not compiling
FailingPair(p) ==
    /\ {p[1].k, p[2].k} \in {{"Regex"}, {"Regex", "Terminal"}}
    /\ RegexFails(p[1]) \/ RegexFails(p[2])

\* C7: is_ll1 returns Err(InvalidRegex), carrying no conflict list, if and
\* only if some pair of set items the driver compares (regex with regex or
\* regex with literal, in a FIRST/FIRST or FIRST/FOLLOW check of a
\* nonterminal with several alternatives) contains a regex that does not
\* compile; conflicts collected before are dropped; otherwise it returns Ok.
C7_ErrIffComparedRegexFails ==
    LlDone
        => /\ llres.tag \in {"Ok", "Err"}
           /\ llres.tag = "Err" <=> \E p \in ComparedPairs : FailingPair(p)
           /\ llres.tag = "Err" => llres.conflicts = <<>>

C7_Witness ==
    /\ LlDone
    /\ llres.tag = "Err"
    /\ conflicts # <<>>
    /\ Len(bnf) = 2
    /\ ridx = 2

\* extract_sets has returned
SetsReturned == lpc \in {"check", "done"}

\* C13: for a grammar with at least one rule, the FOLLOW set extract_sets
\* returns for the first nonterminal in insertion order contains EndOfInput.
C13_StartFollowHasEoi ==
    (SetsReturned /\ bnf # <<>>) => EndOfInput \in follow_sets[bnf[1].name]

C13_Witness ==
    /\ SetsReturned
    /\ Len(bnf) = 2
    /\ EndOfInput \in follow_sets[S]
    /\ EndOfInput \notin follow_sets[A]
    /\ follow_sets[A] # {}

\* one round of derivation: the rules with a production made of nonterminals
\* already known to derive the empty sequence
NullStep(g, known) ==
    {g[r].name : r \in {x \in 1..Len(g) :
        \E p \in 1..Len(g[x].prods) : \A i \in 1..Len(g[x].prods[p]) :
            g[x].prods[p][i].k = "NonTerminal" /\ g[x].prods[p][i].v \in known}}

RECURSIVE NullFix(_, _)
NullFix(g, known) ==
    IF NullStep(g, known) \subseteq known THEN known
    ELSE NullFix(g, known \cup NullStep(g, known))

\* the nonterminals of g that derive the empty sequence
DerivesEmpty(g) == NullFix(g, {})

\* C14: whenever the FIRST table holds Epsilon in FIRST(N), at return and at
\* every round before, N derives the empty sequence in the grammar.
C14_EpsilonMeansNullable ==
    \A n \in DOMAIN first_sets : Epsilon \in first_sets[n] => n \in DerivesEmpty(bnf)

C14_Witness ==
    /\ SetsReturned
    /\ bnf = <<Rule(S, << <<NonTerminal(A)>>, <<Terminal(<<Q, "a", Q>>)>> >>),
               Rule(A, << <<Terminal(<<Q, "+", Q>>)>>, <<>> >>)>>
    /\ Epsilon \in first_sets[S]
    /\ Epsilon \in first_sets[A]

\* extract_sets has just returned to is_ll1
JustReturned == lpc = "check" /\ ridx = 1

\* table t2 holds everything table t1 holds
Grows(t1, t2) == \A n \in DOMAIN t1 : n \in DOMAIN t2 /\ t1[n] \subseteq t2[n]

\* the orders of 1..n
Orders(n) == {f \in [1..n -> 1..n] : \A i, j \in 1..n : f[i] = f[j] => i = j}

\* the alternatives of a rule in another order
Reordered(rule) ==
    {Rule(rule.name, [p \in 1..Len(rule.prods) |-> rule.prods[f[p]]]) :
       f \in Orders(Len(rule.prods))}

RECURSIVE Reorderings(_)
\* the rules of g in their order, the alternatives of each in any order
Reorderings(g) ==
    IF g = <<>> THEN {<<>>}
    ELSE {<<x>> \o rest : x \in Reordered(Head(g)), rest \in Reorderings(Tail(g))}

\* g with its rules, and the alternatives of each, visited in another order
VisitOrders(g) ==
    UNION {Reorderings([r \in 1..Len(g) |-> g[f[r]]]) : f \in Orders(Len(g))}

\* C15: no step of either fixed-point loop removes an item from a FIRST or
\* FOLLOW set, and the tables returned are the ones every other visiting
\* order of the rules and of their alternatives produces, the start symbol
\* being the same.
C15_MonotoneOrderFree ==
    /\ [][Grows(first_sets, first_sets') /\ Grows(follow_sets, follow_sets')]_vars
    /\ [](JustReturned =>
            \A visit \in VisitOrders(bnf) :
                extract_sets(bnf, visit) = [first |-> first_sets, follow |-> follow_sets])

C15_Witness ==
    /\ SetsReturned
    /\ bnf = <<Rule(S, << <<NonTerminal(A), Terminal(<<Q, "a", Q>>)>>, <<NonTerminal(A)>> >>),
               Rule(A, << <<NonTerminal(S)>>, <<Terminal(<<Q, "+", Q>>)>> >>)>>
    /\ Cardinality(VisitOrders(bnf)) = 8
    /\ first_sets[S] = {Terminal(<<Q, "+", Q>>)}
    /\ follow_sets[A] = {Terminal(<<Q, "a", Q>>), EndOfInput}

\* every nonterminal has exactly one production
AllSingle == \A r \in 1..Len(bnf) : Len(bnf[r].prods) = 1

\* C16: for a grammar in which every nonterminal has exactly one production,
\* is_ll1 returns Ok with an empty conflict list, and no step of the driver
\* is the loop body that calls the conflict predicate (which is what compiles
\* the regexes): every rule is skipped.
C16_SingleProductionsAreLl1 ==
    /\ []((LlDone /\ AllSingle) => llres = LlOk(<<>>))
    /\ [][AllSingle => ~(CheckRuleOk \/ CheckRuleErr)]_vars

C16_Witness ==
    /\ LlDone
    /\ bnf = <<Rule(S, << <<NonTerminal(A), Regex(<<"/", "[", "/">>)>> >>),
               Rule(A, << <<Regex(<<"/", "[", "/">>)>> >>)>>
    /\ llres = LlOk(<<>>)
    /\ ridx = 3

\* the conflict predicate finds a conflicting item pair between X and Y
ItemsConflict(X, Y) == \E x \in X, y \in Y : check_item_conflict(x, y).tag = "Some"

\* the <<production1, production2>> of the records of one kind emitted for n,
\* in the order of the returned list
Emitted(n, kind) ==
    LET rs == SelectSeq(llres.conflicts, LAMBDA c : c.non_terminal = n /\ c.kind = kind)
    IN  [x \in 1..Len(rs) |-> <<rs[x].production1, rs[x].production2>>]

\* the productions of rule r at the index pairs ps
Named(r, ps) == [x \in 1..Len(ps) |-> <<bnf[r].prods[ps[x][1]], bnf[r].prods[ps[x][2]]>>]

\* the pairs i < j of alternatives of rule r whose FIRST sets conflict
FirstFirstPairs(r) ==
    SelectSeq(IndexPairs(Len(bnf[r].prods)),
              LAMBDA p : /\ p[1] < p[2]
                         /\ ItemsConflict(FirstOfSeq(bnf[r].prods[p[1]]),
                                          FirstOfSeq(bnf[r].prods[p[2]])))

\* C19: for each nonterminal N with at least two alternatives, the FirstFirst
\* records of N in the returned list are, one each and no other, those of
\* the pairs i < j for which the conflict predicate finds a conflicting item
\* pair between FIRST(ai)\{eps} and FIRST(aj)\{eps}, naming N, production i
\* and production j.
C19_FirstFirstRecords ==
    (LlDone /\ llres.tag = "Ok") =>
        \A r \in 1..Len(bnf) :
            Len(bnf[r].prods) >= 2
                => Emitted(bnf[r].name, "FirstFirst") = Named(r, FirstFirstPairs(r))

C19_Witness ==
    /\ LlDone
    /\ llres.tag = "Ok"
    /\ Len(bnf) = 2
    /\ bnf[1].prods = << <<Terminal(<<Q, "a", Q>>), NonTerminal(A)>>,
                         <<Regex(<<"/", "a", "+", "/">>)>> >>
    /\ Emitted(S, "FirstFirst") = << <<bnf[1].prods[1], bnf[1].prods[2]>> >>
    /\ Len(llres.conflicts) = 1

\* the pairs (i, j), i nullable and j # i, of alternatives of rule r for which
\* FIRST(aj) conflicts with FOLLOW of the rule
FirstFollowPairs(r) ==
    SelectSeq(IndexPairs(Len(bnf[r].prods)),
              LAMBDA p : /\ NullableSeq(bnf[r].prods[p[1]])
                         /\ p[1] # p[2]
                         /\ ItemsConflict(FirstOfSeq(bnf[r].prods[p[2]]),
                                          follow_sets[bnf[r].name]))

\* C20: for each nonterminal N with at least two alternatives, the
\* FirstFollow records of N in the returned list are, one each and no other,
\* those of the pairs of a nullable alternative i and another alternative j
\* for which the conflict predicate finds a conflicting item pair between
\* FIRST(aj)\{eps} and FOLLOW(N); there is none when no alternative of N is
\* nullable.
C20_FirstFollowRecords ==
    (LlDone /\ llres.tag = "Ok") =>
        \A r \in 1..Len(bnf) :
            Len(bnf[r].prods) >= 2
                => /\ Emitted(bnf[r].name, "FirstFollow") = Named(r, FirstFollowPairs(r))
                   /\ (\A p \in 1..Len(bnf[r].prods) : ~NullableSeq(bnf[r].prods[p]))
                         => Emitted(bnf[r].name, "FirstFollow") = <<>>

C20_Witness ==
    /\ LlDone
    /\ llres.tag = "Ok"
    /\ bnf = <<Rule(S, << <<NonTerminal(A), NonTerminal(A)>> >>),
               Rule(A, << <<Terminal(<<Q, "+", Q>>)>>, <<>> >>)>>
    /\ Emitted(A, "FirstFollow") = << <<<<>>, <<Terminal(<<Q, "+", Q>>)>>>> >>
    /\ Len(llres.conflicts) = 1

\* the items of the productions of g
ItemsOf(g) ==
    UNION {UNION {{g[r].prods[p][i] : i \in 1..Len(g[r].prods[p])} :
                    p \in 1..Len(g[r].prods)} :
             r \in 1..Len(g)}

\* every nonterminal a production refers to is a rule of the grammar
WellFormed(g) == \A x \in ItemsOf(g) : x.k = "NonTerminal" => x.v \in Keys(g)

\* the symbols alpha can put first in one step: an item of alpha all of whose
\* predecessors derive the empty sequence
LeftOfSeq(g, alpha) ==
    {alpha[k] : k \in {n \in 1..Len(alpha) :
        \A m \in 1..(n - 1) :
            alpha[m].k = "NonTerminal" /\ alpha[m].v \in DerivesEmpty(g)}}

\* ... that the nonterminals among the symbols X can put first in one step
LeftStep(g, X) ==
    UNION {UNION {LeftOfSeq(g, g[r].prods[p]) : p \in 1..Len(g[r].prods)} :
             r \in {x \in 1..Len(g) : NonTerminal(g[x].name) \in X}}

RECURSIVE LeftFix(_, _)
LeftFix(g, X) ==
    IF LeftStep(g, X) \subseteq X THEN X ELSE LeftFix(g, X \cup LeftStep(g, X))

\* the literals and regexes that begin some sentential form derived from n
Begins(g, n) == {x \in LeftFix(g, {NonTerminal(n)}) : x.k # "NonTerminal"}

\* C21: for a well-formed grammar, the FIRST table extract_sets returns holds
\* a literal or regex t in FIRST(N) if and only if t begins some sentential
\* form derived from N, and Epsilon in FIRST(N) if and only if N derives the
\* empty sequence; its keys are the rules.
C21_FirstIsLeastFixedPoint ==
    (SetsReturned /\ WellFormed(bnf)) =>
        /\ DOMAIN first_sets = Keys(bnf)
        /\ \A n \in Keys(bnf) :
              /\ first_sets[n] \ {Epsilon} = Begins(bnf, n)
              /\ Epsilon \in first_sets[n] <=> n \in DerivesEmpty(bnf)

C21_Witness ==
    /\ SetsReturned
    /\ bnf = <<Rule(S, << <<NonTerminal(A), Terminal(<<Q, "a", Q>>)>>,
                          <<NonTerminal(A), NonTerminal(A)>> >>),
               Rule(A, << <<Terminal(<<Q, "+", Q>>)>>, <<>> >>)>>
    /\ first_sets[S] = {Terminal(<<Q, "+", Q>>), Terminal(<<Q, "a", Q>>), Epsilon}
    /\ first_sets[A] = {Terminal(<<Q, "+", Q>>), Epsilon}

\* the occurrences of nonterminals in the productions of g: A -> alpha B beta
Occurrences(g) ==
    UNION {UNION {{[lhs |-> g[r].name, cur |-> g[r].prods[p][i].v,
                    beta |-> SubSeq(g[r].prods[p], i + 1, Len(g[r].prods[p]))] :
                      i \in {k \in 1..Len(g[r].prods[p]) :
                                g[r].prods[p][k].k = "NonTerminal"}} :
                    p \in 1..Len(g[r].prods)} :
             r \in 1..Len(g)}

\* what the rules put into FOLLOW(n) directly: `$` for the start symbol and
\* FIRST(beta)\{eps} for every occurrence of n before beta
FollowBase(g, n) ==
    (IF g # <<>> /\ g[1].name = n THEN {EndOfInput} ELSE {})
    \cup UNION {FirstOfSeq(o.beta) : o \in {x \in Occurrences(g) : x.cur = n}}

\* the nonterminals whose FOLLOW the rules pass on to one of X: the left-hand
\* sides of the occurrences of X before a nullable beta
FollowFrom(g, X) ==
    {o.lhs : o \in {x \in Occurrences(g) : x.cur \in X /\ NullableSeq(x.beta)}}

RECURSIVE FollowSources(_, _)
FollowSources(g, X) ==
    IF FollowFrom(g, X) \subseteq X THEN X ELSE FollowSources(g, X \cup FollowFrom(g, X))

\* the least FOLLOW(n): the direct contents of every source of n
LeastFollow(g, n) == UNION {FollowBase(g, m) : m \in FollowSources(g, {n})}

\* C22: for a well-formed grammar, the FOLLOW table extract_sets returns
\* satisfies the FOLLOW rules (EndOfInput in FOLLOW(start); for every
\* A -> alpha B beta, FIRST(beta)\{eps} within FOLLOW(B) and, beta nullable,
\* FOLLOW(A) within FOLLOW(B)) and is the least such table: nothing else is
\* in any FOLLOW set.
C22_FollowIsLeastFixedPoint ==
    (SetsReturned /\ WellFormed(bnf)) =>
        /\ bnf # <<>> => EndOfInput \in follow_sets[bnf[1].name]
        /\ \A o \in Occurrences(bnf) :
              /\ FirstOfSeq(o.beta) \subseteq follow_sets[o.cur]
              /\ NullableSeq(o.beta) => follow_sets[o.lhs] \subseteq follow_sets[o.cur]
        /\ \A n \in Keys(bnf) : follow_sets[n] = LeastFollow(bnf, n)

C22_Witness ==
    /\ SetsReturned
    /\ bnf = <<Rule(S, << <<NonTerminal(A), Terminal(<<Q, "a", Q>>)>>, <<NonTerminal(A)>> >>),
               Rule(A, << <<NonTerminal(S)>>, <<Terminal(<<Q, "+", Q>>)>> >>)>>
    /\ follow_sets[S] = {Terminal(<<Q, "a", Q>>), EndOfInput}
    /\ follow_sets[A] = {Terminal(<<Q, "a", Q>>), EndOfInput}

\* the number of items a table holds
Size(table) ==
    Cardinality(UNION {{<<n, x>> : x \in table[n]} : n \in DOMAIN table})

\* C24: extract_sets terminates for every grammar, left-recursive and cyclic
\* ones included: the FIRST loop and the FOLLOW loop each reach a pass in
\* which no set changes (a pass that reports a change has grown the table,
\* which is finite), and the function returns.
C24_ExtractSetsTerminates ==
    /\ (lpc = "first") ~> (lpc = "follow")
    /\ (lpc = "follow") ~> SetsReturned
    /\ [][(lpc = "first" /\ lpc' = "first") =>
            IF changed' THEN Size(first_sets') > Size(first_sets)
            ELSE first_sets' = first_sets]_vars
    /\ [][(lpc = "follow" /\ lpc' = "follow") =>
            IF changed' THEN Size(follow_sets') > Size(follow_sets)
            ELSE follow_sets' = follow_sets]_vars

C24_Witness ==
    /\ SetsReturned
    /\ bnf = <<Rule(S, << <<NonTerminal(A)>> >>),
               Rule(A, << <<NonTerminal(A)>>, <<>> >>)>>
    /\ ~changed

\* extract_sets has built its tables
InExtractSets == lpc \in {"first", "follow", "check", "done"}

\* C25: from the moment extract_sets has built its tables, and in the tables
\* it returns, no FOLLOW set contains Epsilon, no FIRST set contains
\* EndOfInput, and the keys of both tables are exactly the rule names.
C25_TableInvariants ==
    InExtractSets =>
        /\ DOMAIN first_sets = Keys(bnf)
        /\ DOMAIN follow_sets = Keys(bnf)
        /\ \A n \in Keys(bnf) : /\ Epsilon \notin follow_sets[n]
                                /\ EndOfInput \notin first_sets[n]

\* a nullable A follows A: FIRST(A) goes into FOLLOW(A) without its Epsilon
C25_Witness ==
    /\ SetsReturned
    /\ bnf = <<Rule(S, << <<NonTerminal(A), NonTerminal(A)>> >>),
               Rule(A, << <<Terminal(<<Q, "+", Q>>)>>, <<>> >>)>>
    /\ first_sets = (S :> {Terminal(<<Q, "+", Q>>), Epsilon}
                     @@ A :> {Terminal(<<Q, "+", Q>>), Epsilon})
    /\ follow_sets = (S :> {EndOfInput} @@ A :> {Terminal(<<Q, "+", Q>>), EndOfInput})

\* the item-level conflicts of the records of a list
ItemConflictsOf(records) == UNION {records[x].conflicts : x \in 1..Len(records)}

\* C28: every item-level conflict of every record is_ll1 collects and returns
\* pairs two items that are each a literal or a regex, and carries a witness
\* string; Epsilon and EndOfInput never appear in a reported pair.
C28_ReportedPairs ==
    \A c \in ItemConflictsOf(conflicts) \cup ItemConflictsOf(llres.conflicts) :
        /\ c.item1.k \in {"Terminal", "Regex"}
        /\ c.item2.k \in {"Terminal", "Regex"}
        /\ c.witness.some

\* a FIRST/FOLLOW record of A, whose FOLLOW holds EndOfInput next to "+"
C28_Witness ==
    /\ LlDone
    /\ llres.tag = "Ok"
    /\ Len(bnf) = 2
    /\ follow_sets[A] = {Terminal(<<Q, "+", Q>>), EndOfInput}
    /\ \E x \in 1..Len(llres.conflicts) :
          /\ llres.conflicts[x].non_terminal = A
          /\ llres.conflicts[x].kind = "FirstFollow"
          /\ llres.conflicts[x].conflicts =
                {SetItemConflict(Terminal(<<Q, "+", Q>>), Terminal(<<Q, "+", Q>>),
                                 SomeWitness(<<"+">>))}

-----------------------------------------------------------------------------
(* SpecItem: one call of check_item_conflict on two set items.             *)

\* literals, regexes (one that does not compile, some with a shorter
\* alternative before a longer one) and the two markers
SetItemPool ==
    {Terminal(<<Q, "a", Q>>), Terminal(<<Q, "a", "a", Q>>), Terminal(<<Q, "+", Q>>),
     Terminal(<<Q, "e", Q>>), Terminal(<<Q, Q>>),
     Regex(<<"/", "a", "+", "/">>), Regex(<<"/", "a", "|", "a", "a", "/">>),
     Regex(<<"/", "|", "a", "/">>), Regex(<<"/", "a", "|", "/">>),
     Regex(<<"/", "\\", "+", "/">>), Regex(<<"/", "e", "/">>), Regex(<<"/", "[", "/">>),
     Epsilon, EndOfInput}

ItInit ==
    /\ lhs_item \in SetItemPool
    /\ rhs_item \in SetItemPool
    /\ item_res = <<>>
    /\ fpc = "item"
    /\ pat = <<>>
    /\ me_res = FALSE
    /\ RxIdle
    /\ LlIdle
    /\ CvIdle
    /\ FsIdle

ItCall ==
    /\ fpc = "item"
    /\ item_res' = check_item_conflict(lhs_item, rhs_item)
    /\ fpc' = "done"
    /\ UNCHANGED <<lhs_item, rhs_item, pat, me_res, rxVars, llVars, cvVars, fsVars>>

ItNext == ItCall

SpecItem == ItInit /\ [][ItNext]_vars

\* the call was on a regex and a literal, in either order
RegexWithLiteral == {lhs_item.k, rhs_item.k} = {"Regex", "Terminal"}
TheRegex == IF lhs_item.k = "Regex" THEN lhs_item ELSE rhs_item
TheLiteral == IF lhs_item.k = "Terminal" THEN lhs_item ELSE rhs_item

\* C17: for a regex and a literal, in either argument order,
\* check_item_conflict reports a conflict if and only if the regex fully
\* matches the literal's text, and the witness of the conflict is the
\* literal's text.
C17_RegexLiteralConflict ==
    (FnDone /\ RegexWithLiteral) =>
        /\ item_res.tag = "Some" <=> Denotes(TheRegex, Inner(TheLiteral))
        /\ item_res.tag = "Some" => item_res.c.witness = SomeWitness(Inner(TheLiteral))

-----------------------------------------------------------------------------
(* SpecFirst: one call of first_of_sequence on a sequence and a table.     *)

MaxSeqLen == 3

B == <<"B">>

\* a literal, a regex, two nonterminals with an entry and one without
SeqItems ==
    {Terminal(<<Q, "a", Q>>), Regex(<<"/", "a", "+", "/">>),
     NonTerminal(S), NonTerminal(A), NonTerminal(B)}

\* tables with an entry for S and for A
Tables == [{S, A} -> SUBSET {Terminal(<<Q, "+", Q>>), Terminal(<<Q, "a", Q>>), Epsilon}]

FsInit ==
    /\ fs_seq \in SeqsUpTo(SeqItems, MaxSeqLen)
    /\ fs_table \in Tables
    /\ fs_res = <<>>
    /\ fs_pc = "call"
    /\ RxIdle
    /\ LlIdle
    /\ CvIdle
    /\ FnIdle

FsCall ==
    /\ fs_pc = "call"
    /\ fs_res' = first_of_sequence(fs_seq, fs_table)
    /\ fs_pc' = "done"
    /\ UNCHANGED <<fs_seq, fs_table, rxVars, llVars, cvVars, fnVars>>

FsNext == FsCall

SpecFirst == FsInit /\ [][FsNext]_vars

\* the entry of x holds Epsilon
HasEpsilon(x, table) ==
    x.k = "NonTerminal" /\ x.v \in DOMAIN table /\ Epsilon \in table[x.v]

\* the position of the first item that is a literal, a regex or a nonterminal
\* without Epsilon in its entry; the length of the sequence if there is none
StopAt(seq, table) ==
    IF \E i \in 1..Len(seq) : ~HasEpsilon(seq[i], table)
    THEN CHOOSE i \in 1..Len(seq) :
            /\ ~HasEpsilon(seq[i], table)
            /\ \A j \in 1..(i - 1) : HasEpsilon(seq[j], table)
    ELSE Len(seq)

\* a literal or regex contributes itself, a nonterminal its entry minus Epsilon
Contribution(x, table) ==
    IF x.k # "NonTerminal" THEN {x}
    ELSE IF x.v \in DOMAIN table THEN table[x.v] \ {Epsilon}
    ELSE {}

\* C23: first_of_sequence(X1..Xn, table) returns (F, nullable) with nullable
\* true exactly when every Xi is a nonterminal whose entry holds Epsilon, F
\* the union of the contributions of X1..Xk, k the position of the first
\* item that stops the scan (n if none does); F never holds Epsilon, and the
\* table is not modified.
C23_FirstOfSequence ==
    /\ [](fs_pc = "done" =>
            /\ fs_res.nullable <=> \A i \in 1..Len(fs_seq) : HasEpsilon(fs_seq[i], fs_table)
            /\ fs_res.firsts =
                  UNION {Contribution(fs_seq[i], fs_table) :
                           i \in 1..StopAt(fs_seq, fs_table)}
            /\ Epsilon \notin fs_res.firsts)
    /\ [][fs_table' = fs_table]_vars

C23_Witness ==
    /\ fs_pc = "done"
    /\ fs_seq = <<NonTerminal(S), NonTerminal(A), Terminal(<<Q, "a", Q>>)>>
    /\ fs_table = (S :> {Epsilon, Terminal(<<Q, "+", Q>>)} @@ A :> {Terminal(<<Q, "+", Q>>)})
    /\ fs_res = [firsts |-> {Terminal(<<Q, "+", Q>>)}, nullable |-> FALSE]

-----------------------------------------------------------------------------
(* converter.rs: sebnf_to_bnf.                                             *)

\* sebnf::Item::{Optional, AnyAmount, Choice}
Optional(children) == [k |-> "Optional", v |-> children]
AnyAmount(children) == [k |-> "AnyAmount", v |-> children]
Choice(alternatives) == [k |-> "Choice", v |-> alternatives]

\* every String writes the same two quotes
DebugStr_Blank(s) == <<Q, Q>>

\* the pieces `{:?}` writes for a String: quotes around, `"` and `\` escaped
DebugStr(s) ==
    <<Q>>
    \o Concat([i \in 1..Len(s) |->
                 IF s[i] = Q THEN <<"\\", Q>>
                 ELSE IF s[i] = "\\" THEN <<"\\", "\\">>
                 ELSE <<s[i]>>])
    \o <<Q>>

\* ... for a bnf::Item (derived Debug): Variant("..")
DebugItem(it) == <<it.k, "(">> \o DebugStr(it.v) \o <<")">>

\* ... for a Vec whose elements write `parts`: [e1, e2, ..]
DebugList(parts) ==
    <<"[">>
    \o Concat([i \in 1..Len(parts) |-> (IF i > 1 THEN <<", ">> ELSE <<>>) \o parts[i]])
    \o <<"]">>

\* format!("{:?}", v) for v: Vec<bnf::Item> and for v: Vec<Vec<bnf::Item>>
DebugSeq(items) == DebugList([i \in 1..Len(items) |-> DebugItem(items[i])])
DebugBody(body) == DebugList([i \in 1..Len(body) |-> DebugSeq(body[i])])

Digit(d) == <<"0", "1", "2", "3", "4", "5", "6", "7", "8", "9">>[d + 1]

RECURSIVE Decimal(_)
\* `{}` of a usize
Decimal(n) == IF n < 10 THEN <<Digit(n)>> ELSE Decimal(n \div 10) \o <<Digit(n % 10)>>

Reserved == <<"_", "_", "_">>
Opt == <<"o", "p", "t">>
Cho == <<"c", "h", "o", "i", "c", "e">>
Rep == <<"r", "e", "p">>

\* a new key goes first
IndexInsert_Front(map, name, body) ==
    IF \E i \in 1..Len(map) : map[i].name = name
    THEN [i \in 1..Len(map) |-> IF map[i].name = name THEN Rule(name, body) ELSE map[i]]
    ELSE <<Rule(name, body)>> \o map

\* IndexMap::insert: a new key goes last, an existing key keeps its place
IndexInsert(map, name, body) ==
    IF \E i \in 1..Len(map) : map[i].name = name
    THEN [i \in 1..Len(map) |-> IF map[i].name = name THEN Rule(name, body) ELSE map[i]]
    ELSE Append(map, Rule(name, body))

\* the counter starts at 1
new_FromOne ==
    [bnf_rules |-> <<>>, rule_cache |-> <<>>, rep_cache |-> <<>>, uid_counter |-> 1,
     log |-> <<>>]

\* ConverterContext::new; `log` is the history of the replacements made, one
\* entry per construct converted (it is not a field of the program)
new ==
    [bnf_rules |-> <<>>, rule_cache |-> <<>>, rep_cache |-> <<>>, uid_counter |-> 0,
     log |-> <<>>]

\* the name ConverterContext::next_name returns without the reserved prefix
next_name_Bare(c, prefix) == prefix \o <<"_">> \o Decimal(c.uid_counter)

\* format!("___{}_{}", prefix, self.uid_counter)
next_name(c, prefix) == Reserved \o prefix \o <<"_">> \o Decimal(c.uid_counter)

\* an entry also records the counter, the number of helper rules and the
\* number of cache entries convert_item leaves behind
Logged(c, it, name, fresh) ==
    [c EXCEPT !.log = Append(@, [kind |-> it.k, subtree |-> it, name |-> name,
                                 fresh |-> fresh,
                                 uid |-> c.uid_counter,
                                 rules |-> Len(c.bnf_rules),
                                 cached |-> Cardinality(DOMAIN c.rule_cache)
                                            + Cardinality(DOMAIN c.rep_cache)])]

Converted(c, out) == [ctx |-> c, out |-> out]

\* the cache never holds the key: every construct gets a helper of its own
CacheHit_Never(c, cache, key) == FALSE

\* `if let Some(existing_name) = self.<cache>.get(&key)`
CacheHit(c, cache, key) == key \in DOMAIN c[cache]

\* a new helper is named and cached, but its rule is never inserted
Create_NoRule(c, it, cache, key, name, body) ==
    Converted(Logged([c EXCEPT !.uid_counter = @ + 1,
                               ![cache] = (key :> name) @@ @],
                     it, name, TRUE),
              NonTerminal(name))

\* the else branch: name, cache entry and rule of a new helper; the body of a
\* repetition ends its first alternative with the new name
Create(c, it, cache, key, name, body) ==
    Converted(Logged([c EXCEPT !.uid_counter = @ + 1,
                               ![cache] = (key :> name) @@ @,
                               !.bnf_rules = IndexInsert(@, name, body)],
                     it, name, TRUE),
              NonTerminal(name))

Reuse(c, it, name) == Converted(Logged(c, it, name, FALSE), NonTerminal(name))

\* Optional: body = [converted_seq, []], keyed by its Debug text in rule_cache
OptionalArm(it, r) ==
    IF CacheHit(r.ctx, "rule_cache", DebugBody(<<r.out, <<>>>>))
    THEN Reuse(r.ctx, it, r.ctx.rule_cache[DebugBody(<<r.out, <<>>>>)])
    ELSE Create(r.ctx, it, "rule_cache", DebugBody(<<r.out, <<>>>>),
                next_name(r.ctx, Opt), <<r.out, <<>>>>)

\* Choice: body = the converted alternatives, keyed in the same rule_cache
ChoiceArm(it, r) ==
    IF CacheHit(r.ctx, "rule_cache", DebugBody(r.out))
    THEN Reuse(r.ctx, it, r.ctx.rule_cache[DebugBody(r.out)])
    ELSE Create(r.ctx, it, "rule_cache", DebugBody(r.out),
                next_name(r.ctx, Cho), r.out)

\* the self-reference comes first
AnyAmountArm_SelfFirst(it, r) ==
    IF CacheHit(r.ctx, "rep_cache", DebugSeq(r.out))
    THEN Reuse(r.ctx, it, r.ctx.rep_cache[DebugSeq(r.out)])
    ELSE Create(r.ctx, it, "rep_cache", DebugSeq(r.out),
                next_name(r.ctx, Rep),
                <<<<NonTerminal(next_name(r.ctx, Rep))>> \o r.out, <<>>>>)

\* AnyAmount: keyed by the Debug text of converted_seq in rep_cache,
\* body = [converted_seq + self-reference, []]
AnyAmountArm(it, r) ==
    IF CacheHit(r.ctx, "rep_cache", DebugSeq(r.out))
    THEN Reuse(r.ctx, it, r.ctx.rep_cache[DebugSeq(r.out)])
    ELSE Create(r.ctx, it, "rep_cache", DebugSeq(r.out),
                next_name(r.ctx, Rep),
                <<Append(r.out, NonTerminal(next_name(r.ctx, Rep))), <<>>>>)

\* x pushed in front of what the rest of the loop produced
Pushed(x, r) == Converted(r.ctx, <<x>> \o r.out)

RECURSIVE convert_item(_, _), convert_sequence(_, _), SequenceRest(_, _),
          ConvertAlternatives(_, _), AlternativesRest(_, _)

convert_item(c, it) ==
    CASE it.k = "Optional" -> OptionalArm(it, convert_sequence(c, it.v))
      [] it.k = "Choice" -> ChoiceArm(it, ConvertAlternatives(c, it.v))
      [] it.k = "AnyAmount" -> AnyAmountArm(it, convert_sequence(c, it.v))
      [] OTHER -> Converted(c, it)

\* items.iter().map(|item| self.convert_item(item)).collect()
convert_sequence(c, items) ==
    IF items = <<>> THEN Converted(c, <<>>)
    ELSE SequenceRest(convert_item(c, Head(items)), Tail(items))

SequenceRest(h, rest) == Pushed(h.out, convert_sequence(h.ctx, rest))

\* `for alt in alternatives { body.push(self.convert_sequence(alt)); }`
ConvertAlternatives(c, alts) ==
    IF alts = <<>> THEN Converted(c, <<>>)
    ELSE AlternativesRest(convert_sequence(c, Head(alts)), Tail(alts))

AlternativesRest(h, rest) == Pushed(h.out, ConvertAlternatives(h.ctx, rest))

RECURSIVE InsertAll(_, _)
\* `for (name, alts) in rules { final_rules.insert(name, alts); }`
InsertAll(map, rules) ==
    IF rules = <<>> THEN map
    ELSE InsertAll(IndexInsert(map, Head(rules).name, Head(rules).prods), Tail(rules))

RECURSIVE ConvertRules(_, _, _)
\* the loop over the rules of the input, from rule number idx on
ConvertRules(g, idx, st) ==
    IF idx > Len(g) THEN st
    ELSE ByValue(ConvertAlternatives(st.ctx, g[idx].prods), LAMBDA r :
             ConvertRules(g, idx + 1,
                          [ctx |-> r.ctx,
                           original_rules |-> Append(st.original_rules,
                                                     Rule(g[idx].name, r.out))]))

\* the function as a whole: a new context, the loop, the assembly
sebnf_to_bnf(g) ==
    ByValue(ConvertRules(g, 1, [ctx |-> new, original_rules |-> <<>>]), LAMBDA st :
        InsertAll(InsertAll(<<>>, st.original_rules), st.ctx.bnf_rules))

-----------------------------------------------------------------------------
(* The EBNF grammars converted: a first rule S of one alternative with up  *)
(* to MaxRuleItems items and, optionally, a second rule A.                 *)

MaxRuleItems == 2

Tx == Terminal(<<Q, "x", Q>>)
Ty == Terminal(<<Q, "y", Q>>)

\* what stands inside a construct: nothing, x, or y
InnerSeqs == {<<>>, <<Tx>>, <<Ty>>}

\* [ s ], { s }, ( s | t ) and ( ); the parser never delivers a Choice of a
\* single alternative of a single item (it unwraps it)
Flat ==
    {Optional(s) : s \in InnerSeqs}
    \cup {AnyAmount(s) : s \in InnerSeqs}
    \cup {Choice(<<s1, s2>>) : s1 \in InnerSeqs, s2 \in InnerSeqs}
    \cup {Choice(<< <<>> >>)}

\* constructs inside constructs
Nested ==
    {Optional(<<Optional(<<Tx>>)>>),
     Optional(<<Choice(<< <<Tx>>, <<>> >>)>>),
     Optional(<<Tx, AnyAmount(<<Tx>>)>>),
     AnyAmount(<<Optional(<<Tx>>)>>),
     AnyAmount(<<AnyAmount(<<Tx>>), Tx>>)}

EbnfPool == {Tx, Ty, NonTerminal(A)} \cup Flat \cup Nested

AlternativesA ==
    {<<Optional(<<Tx>>)>>, <<AnyAmount(<<Tx>>)>>, <<Tx, Optional(<<NonTerminal(S)>>)>>}

Ebnfs ==
    {<<Rule(S, <<s>>)>> : s \in SeqsUpTo(EbnfPool, MaxRuleItems)}
    \cup {<<Rule(S, <<s>>), Rule(A, <<q>>)>> :
            s \in SeqsUpTo(EbnfPool, MaxRuleItems), q \in AlternativesA}

-----------------------------------------------------------------------------
(* sebnf_to_bnf as a state machine: the loop over the rules, then the      *)
(* assembly of the result.                                                 *)

CvInit ==
    /\ sebnf \in Ebnfs
    /\ ctx = new
    /\ original_rules = <<>>
    /\ cidx = 1
    /\ cpc = "rules"
    /\ final_rules = <<>>
    /\ RxIdle
    /\ LlIdle
    /\ FnIdle
    /\ FsIdle

\* the rule is kept with its alternatives as they were in the input
ConvertRule_KeepsSource ==
    /\ cpc = "rules"
    /\ cidx <= Len(sebnf)
    /\ \E r \in {ConvertAlternatives(ctx, sebnf[cidx].prods)} :
           /\ ctx' = r.ctx
           /\ original_rules' = Append(original_rules, sebnf[cidx])
    /\ cidx' = cidx + 1
    /\ UNCHANGED <<sebnf, cpc, final_rules, rxVars, llVars, fnVars, fsVars>>

\* the body of `for (name, alternatives) in &sebnf.rules`
ConvertRule ==
    /\ cpc = "rules"
    /\ cidx <= Len(sebnf)
    /\ \E r \in {ConvertAlternatives(ctx, sebnf[cidx].prods)} :
           /\ ctx' = r.ctx
           /\ original_rules' = Append(original_rules, Rule(sebnf[cidx].name, r.out))
    /\ cidx' = cidx + 1
    /\ UNCHANGED <<sebnf, cpc, final_rules, rxVars, llVars, fnVars, fsVars>>

\* the originals in input order, then the helpers in creation order
BuildResult ==
    /\ cpc = "rules"
    /\ cidx > Len(sebnf)
    /\ final_rules' = InsertAll(InsertAll(<<>>, original_rules), ctx.bnf_rules)
    /\ cpc' = "done"
    /\ UNCHANGED <<sebnf, ctx, original_rules, cidx, rxVars, llVars, fnVars, fsVars>>

CvNext == ConvertRule \/ BuildResult

SpecConv == CvInit /\ [][CvNext]_vars

-----------------------------------------------------------------------------
(* Reference semantics for the claims about sebnf_to_bnf.                  *)

CvDone == cpc = "done"

MaxWordLen == 3

\* concatenation of two languages, words up to MaxWordLen
Cat(X, Y) == {w \in {p[1] \o p[2] : p \in X \X Y} : Len(w) <= MaxWordLen}

RECURSIVE Star(_, _)
\* zero or more words of X: the least set holding acc and closed under X-prefixing
Star(X, acc) == IF Cat(X, acc) \subseteq acc THEN acc ELSE Star(X, acc \cup Cat(X, acc))

RECURSIVE LangItem(_, _), LangSeq(_, _)
\* the words an item derives when nonterminal n derives env[n]: [a] is zero
\* or one a, {a} zero or more a, (a1|a2|..) any one alternative
LangItem(it, env) ==
    CASE it.k = "NonTerminal" -> IF it.v \in DOMAIN env THEN env[it.v] ELSE {}
      [] it.k = "Optional" -> {<<>>} \cup LangSeq(it.v, env)
      [] it.k = "AnyAmount" -> Star(LangSeq(it.v, env), {<<>>})
      [] it.k = "Choice" -> UNION {LangSeq(it.v[i], env) : i \in 1..Len(it.v)}
      [] OTHER -> {<<it>>}

LangSeq(items, env) ==
    IF items = <<>> THEN {<<>>}
    ELSE Cat(LangItem(Head(items), env), LangSeq(Tail(items), env))

\* one round of derivation for every rule of g
LangStep(g, env) ==
    [n \in DOMAIN env |->
        UNION {UNION {LangSeq(g[r].prods[p], env) : p \in 1..Len(g[r].prods)} :
                 r \in {x \in 1..Len(g) : g[x].name = n}}]

RECURSIVE LangFix(_, _, _)
LangFix(g, env, next) == IF next = env THEN env ELSE LangFix(g, next, LangStep(g, next))

\* the terminal strings (up to MaxWordLen) g derives from its first rule
Language(g) ==
    LangFix(g, [n \in Keys(g) |-> {}], LangStep(g, [n \in Keys(g) |-> {}]))[g[1].name]

\* C8: the BNF grammar sebnf_to_bnf returns derives from its first rule the
\* same terminal strings as the EBNF input derives from its first rule.
C8_SameLanguage == CvDone => Language(final_rules) = Language(sebnf)

C8_Witness ==
    /\ CvDone
    /\ sebnf = <<Rule(S, <<<<AnyAmount(<<Optional(<<Tx>>)>>), NonTerminal(A)>>>>),
                 Rule(A, <<<<Tx, Optional(<<NonTerminal(S)>>)>>>>)>>
    /\ Len(final_rules) = 5
    /\ <<Tx, Tx, Tx>> \in Language(final_rules)
    /\ <<>> \notin Language(final_rules)

Digits == {Digit(d) : d \in 0..9}

\* name is ___<prefix>_N for a decimal number N
HasForm(name, prefix) ==
    /\ Len(name) > Len(Reserved \o prefix) + 1
    /\ SubSeq(name, 1, Len(Reserved \o prefix) + 1) = Reserved \o prefix \o <<"_">>
    /\ \A i \in (Len(Reserved \o prefix) + 2)..Len(name) : name[i] \in Digits

KindPrefix(kind) ==
    CASE kind = "Optional" -> Opt
      [] kind = "Choice" -> Cho
      [] kind = "AnyAmount" -> Rep

\* C9 (as stated): every Optional is replaced by a nonterminal named
\* ___opt_N, every Choice by ___choice_N, every Repetition by ___rep_N.
C9_NamedByKind ==
    CvDone => \A i \in 1..Len(ctx.log) : HasForm(ctx.log[i].name, KindPrefix(ctx.log[i].kind))

\* C9 (amended): every Repetition is replaced by a nonterminal named
\* ___rep_N; every Optional or Choice by one named ___opt_N or ___choice_N,
\* after the kind of the construct that created the helper: its own kind
\* when it creates one, the creator's kind when it reuses one.
C9_NamedByCreator ==
    CvDone =>
        \A i \in 1..Len(ctx.log) :
            /\ ctx.log[i].kind = "AnyAmount" => HasForm(ctx.log[i].name, Rep)
            /\ ctx.log[i].kind # "AnyAmount"
                  => HasForm(ctx.log[i].name, Opt) \/ HasForm(ctx.log[i].name, Cho)
            /\ ctx.log[i].fresh => HasForm(ctx.log[i].name, KindPrefix(ctx.log[i].kind))
            /\ ~ctx.log[i].fresh
                  => \E j \in 1..(i - 1) :
                        /\ ctx.log[j].fresh
                        /\ ctx.log[j].name = ctx.log[i].name
                        /\ (ctx.log[j].kind = "AnyAmount") = (ctx.log[i].kind = "AnyAmount")

C9_Witness ==
    /\ CvDone
    /\ \E i, j, n \in 1..Len(ctx.log) :
          /\ ctx.log[i].kind = "Choice" /\ ctx.log[i].fresh
          /\ ctx.log[j].kind = "Optional" /\ ~ctx.log[j].fresh
          /\ ctx.log[j].name = ctx.log[i].name
          /\ HasForm(ctx.log[j].name, Cho)
          /\ ctx.log[n].kind = "AnyAmount" /\ HasForm(ctx.log[n].name, Rep)

\* C10: two occurrences of structurally identical Optional subtrees (or of
\* identical Choice subtrees, or of identical Repetition subtrees), in any
\* rules and at any depth, are replaced by the same helper nonterminal, which
\* was created once and has exactly one rule in the result.
C10_SharedHelper ==
    CvDone =>
        \A i, j \in 1..Len(ctx.log) :
            (ctx.log[i].kind = ctx.log[j].kind /\ ctx.log[i].subtree = ctx.log[j].subtree)
                => /\ ctx.log[i].name = ctx.log[j].name
                   /\ (ctx.log[i].fresh /\ ctx.log[j].fresh) => i = j
                   /\ Cardinality({r \in 1..Len(final_rules) :
                                     final_rules[r].name = ctx.log[i].name}) = 1

C10_Witness ==
    /\ CvDone
    /\ sebnf = <<Rule(S, <<<<AnyAmount(<<Optional(<<Tx>>)>>), AnyAmount(<<Tx>>)>>>>),
                 Rule(A, <<<<Optional(<<Tx>>)>>>>)>>
    /\ ctx.log[1].subtree = ctx.log[4].subtree
    /\ ctx.log[1].name = ctx.log[4].name
    /\ Len(final_rules) = 5

\* the keys of a grammar in iteration order
KeySeq(g) == [r \in 1..Len(g) |-> g[r].name]

\* the names of the helpers in the order they were created
HelperNames ==
    KeySeq(SelectSeq(ctx.log, LAMBDA e : e.fresh))

\* C11: the keys of the returned grammar are, in iteration order, the input
\* rule names in input order followed by the helper names in creation order
\* (which is the order of their numbers); the first key is the first input
\* rule.
C11_KeyOrder ==
    CvDone =>
        /\ KeySeq(final_rules) = KeySeq(sebnf) \o HelperNames
        /\ \A k \in 1..Len(HelperNames) :
              \E prefix \in {Opt, Cho, Rep} :
                  HelperNames[k] = Reserved \o prefix \o <<"_">> \o Decimal(k - 1)
        /\ sebnf # <<>> => final_rules[1].name = sebnf[1].name

C11_Witness ==
    /\ CvDone
    /\ KeySeq(final_rules) =
          <<S, A, Reserved \o Opt \o <<"_", "0">>, Reserved \o Rep \o <<"_", "1">>,
            Reserved \o Opt \o <<"_", "2">>>>

RECURSIVE Referenced(_)
\* the nonterminal names an EBNF item refers to, at any depth
Referenced(it) ==
    CASE it.k = "NonTerminal" -> {it.v}
      [] it.k \in {"Optional", "AnyAmount"} ->
            UNION {Referenced(it.v[i]) : i \in 1..Len(it.v)}
      [] it.k = "Choice" ->
            UNION {UNION {Referenced(it.v[alt][i]) : i \in 1..Len(it.v[alt])} :
                     alt \in 1..Len(it.v)}
      [] OTHER -> {}

\* ... by any production of a grammar
ReferencedIn(g) ==
    UNION {UNION {UNION {Referenced(g[r].prods[p][i]) : i \in 1..Len(g[r].prods[p])} :
                    p \in 1..Len(g[r].prods)} :
             r \in 1..Len(g)}

StartsReserved(name) == Len(name) >= 3 /\ SubSeq(name, 1, 3) = Reserved

\* every name the input refers to is an input rule, none in the ___ namespace
InputClosed ==
    /\ ReferencedIn(sebnf) \subseteq Keys(sebnf)
    /\ \A n \in Keys(sebnf) : ~StartsReserved(n)

\* C12: if every nonterminal the EBNF input refers to is an input rule (and
\* no input name starts with ___), every nonterminal referred to by a
\* production of the returned grammar, helper names included, is one of its
\* keys.
C12_ReferencesResolved ==
    (CvDone /\ InputClosed) => ReferencedIn(final_rules) \subseteq Keys(final_rules)

C12_Witness ==
    /\ CvDone
    /\ InputClosed
    /\ A \in ReferencedIn(final_rules)
    /\ S \in ReferencedIn(final_rules)
    /\ \E n \in ReferencedIn(final_rules) : HasForm(n, Rep)
    /\ \E n \in ReferencedIn(final_rules) : HasForm(n, Opt)

\* the replacements made, as a set
Replacements == {ctx.log[i] : i \in 1..Len(ctx.log)}

IsConstruct(it) == it.k \in {"Optional", "Choice", "AnyAmount"}

\* the helper that stands for a construct of the input
HelperOf(it) == (CHOOSE e \in Replacements : e.subtree = it).name

\* a': a sequence with every construct on its top level replaced by the
\* nonterminal of its helper
Desugared(items) ==
    [i \in 1..Len(items) |->
        IF IsConstruct(items[i]) THEN NonTerminal(HelperOf(items[i])) ELSE items[i]]

\* the alternatives prescribed for the helper of a replaced construct
Prescribed(e) ==
    CASE e.kind = "Optional" -> <<Desugared(e.subtree.v), <<>>>>
      [] e.kind = "AnyAmount" ->
            <<Append(Desugared(e.subtree.v), NonTerminal(e.name)), <<>>>>
      [] e.kind = "Choice" ->
            [k \in 1..Len(e.subtree.v) |-> Desugared(e.subtree.v[k])]

\* the alternatives of the rules called name, in iteration order
AlternativesOf(g, name) ==
    [k \in 1..Len(SelectSeq(g, LAMBDA rl : rl.name = name)) |->
        SelectSeq(g, LAMBDA rl : rl.name = name)[k].prods]

\* C26: every helper rule of the returned grammar stands for a construct of
\* the input and has exactly the alternatives prescribed for it, built from
\* the desugared body a': [a] gives a' and the empty production, {a} gives
\* a' H (H the helper itself, last) and the empty production, (a1|..|an)
\* gives a1', .., an' in source order.
C26_HelperAlternatives ==
    CvDone =>
        /\ \A e \in Replacements :
              AlternativesOf(final_rules, e.name) = <<Prescribed(e)>>
        /\ \A e1, e2 \in Replacements : e1.subtree = e2.subtree => e1.name = e2.name
        /\ \A r \in 1..Len(final_rules) :
              \/ final_rules[r].name \in Keys(sebnf)
              \/ \E e \in Replacements : e.name = final_rules[r].name

C26_Witness ==
    /\ CvDone
    /\ sebnf = <<Rule(S, << <<Optional(<<Tx, AnyAmount(<<Tx>>)>>),
                             Choice(<< <<Tx>>, <<Ty>> >>)>> >>)>>
    /\ final_rules =
          <<Rule(S, << <<NonTerminal(Reserved \o Opt \o <<"_", "1">>),
                        NonTerminal(Reserved \o Cho \o <<"_", "2">>)>> >>),
            Rule(Reserved \o Rep \o <<"_", "0">>,
                 << <<Tx, NonTerminal(Reserved \o Rep \o <<"_", "0">>)>>, <<>> >>),
            Rule(Reserved \o Opt \o <<"_", "1">>,
                 << <<Tx, NonTerminal(Reserved \o Rep \o <<"_", "0">>)>>, <<>> >>),
            Rule(Reserved \o Cho \o <<"_", "2">>, << <<Tx>>, <<Ty>> >>)>>

\* the names the rules of g called n refer to
RefersTo(g, n) == ReferencedIn(SelectSeq(g, LAMBDA rl : rl.name = n))

RECURSIVE ReachableFrom(_, _)
\* the names reached from the names in seen by following references in g
ReachableFrom(g, seen) ==
    IF UNION {RefersTo(g, n) : n \in seen} \subseteq seen THEN seen
    ELSE ReachableFrom(g, seen \cup UNION {RefersTo(g, n) : n \in seen})

\* the helper rules of the returned grammar
Helpers == Keys(final_rules) \ Keys(sebnf)

\* the constructs that stand directly in the body of a construct
DirectlyIn(it) ==
    IF it.k = "Choice"
    THEN UNION {{it.v[k][i] : i \in {j \in 1..Len(it.v[k]) : IsConstruct(it.v[k][j])}} :
                  k \in 1..Len(it.v)}
    ELSE {it.v[i] : i \in {j \in 1..Len(it.v) : IsConstruct(it.v[j])}}

\* C29: in the returned grammar every helper rule is referred to by a
\* production of another rule and is reachable from an input rule; there are
\* as many helper rules as constructs that missed the cache (a hit creates
\* none); and the helper of a construct refers to the helper of every
\* construct that stands directly in its body.
C29_HelpersReferenced ==
    CvDone =>
        /\ \A h \in Helpers :
              /\ \E n \in Keys(final_rules) \ {h} : h \in RefersTo(final_rules, n)
              /\ h \in ReachableFrom(final_rules, Keys(sebnf))
        /\ Cardinality(Helpers) = Len(HelperNames)
        /\ \A e \in Replacements : \A x \in DirectlyIn(e.subtree) :
              HelperOf(x) \in RefersTo(final_rules, e.name)

\* { {x} x }: the inner helper is referred to by the outer one and by itself,
\* not by S
C29_Witness ==
    /\ CvDone
    /\ sebnf = <<Rule(S, << <<AnyAmount(<<AnyAmount(<<Tx>>), Tx>>)>> >>)>>
    /\ Helpers = {Reserved \o Rep \o <<"_", "0">>, Reserved \o Rep \o <<"_", "1">>}
    /\ RefersTo(final_rules, S) = {Reserved \o Rep \o <<"_", "1">>}
    /\ RefersTo(final_rules, Reserved \o Rep \o <<"_", "1">>) = Helpers

\* the decimal number name ends with, after its last "_"
EndsWithNumber(name, n) ==
    /\ Len(name) > Len(Decimal(n))
    /\ SubSeq(name, Len(name) - Len(Decimal(n)), Len(name)) = <<"_">> \o Decimal(n)

CacheEntries(c) == Cardinality(DOMAIN c.rule_cache) + Cardinality(DOMAIN c.rep_cache)

\* C30: the counter starts at 0 and, after every convert_item step and
\* between the rules, equals the number of helper rules created so far and
\* the number of entries of the two caches together; the helper names are
\* pairwise distinct and the k-th helper created carries the number k - 1;
\* the returned grammar is the one a second invocation on the same input
\* returns.
C30_CounterCountsHelpers ==
    cpc \in {"rules", "done"} =>
        /\ cidx = 1 => ctx.uid_counter = 0
        /\ ctx.uid_counter = Len(ctx.bnf_rules)
        /\ ctx.uid_counter = CacheEntries(ctx)
        /\ \A e \in Replacements : e.uid = e.rules /\ e.uid = e.cached
        /\ Injective(KeySeq(ctx.bnf_rules))
        /\ \A k \in 1..Len(ctx.bnf_rules) : EndsWithNumber(ctx.bnf_rules[k].name, k - 1)
        /\ CvDone => final_rules = sebnf_to_bnf(sebnf)

\* three helpers, one of them used twice, over two rules
C30_Witness ==
    /\ CvDone
    /\ Len(sebnf) = 2
    /\ ctx.uid_counter = 3
    /\ Len(ctx.log) = 4
    /\ Cardinality(DOMAIN ctx.rule_cache) = 2
    /\ Cardinality(DOMAIN ctx.rep_cache) = 1

====
